---- MODULE Spec2Model ----
(***************************************************************************)
(* Model of the Smart PDF Replacer: the phone pattern and its scans, the   *)
(* text normalizer, the in-place line assembler, the geometry mapping and  *)
(* the client batch loop (pages/index.js, pages/api/process.js).           *)
(*                                                                         *)
(* Strings are sequences of one-character strings; offsets are 0-based as  *)
(* in the source, so the character at offset k of t is t[k + 1].           *)
(***************************************************************************)
EXTENDS Integers, Sequences, FiniteSets, TLC

VARIABLES
    text,         \* the string handed to the matcher / normalizer
    replacement,  \* newNumber
    lastIndex,    \* PHONE_RE.lastIndex, the one module-level regex object
    matches,      \* matches returned so far by the exec loop over text
    replaced,     \* text.replace(phoneRegex, newNumber)
    mpc,          \* position of the matcher run
    normOnce,     \* normalizeWeird(text)
    normTwice,    \* normalizeWeird(normalizeWeird(text))
    npc,          \* position of the normalizer run
    doc,          \* the document handed to processInplaceClient: its pages
    ipc,          \* position of processInplaceClient
    pageNo,       \* i of the page loop, 1-based
    lines,        \* the lines assembled for the current page
    lineNo,       \* the line the match loop is at, 1-based
    draws,        \* pdfDoc: the draw stream added to each page
    lastBox,      \* the last box computed: fragments used, source and destination
    lineLog,      \* the last line scanned to the end: its text and matches
    urls,         \* the URLs parsed from pdfUrls, each a sequence of path segments
    layoutMode,   \* 'presentable' | 'inplace' | 'rebuild'
    aiMode,
    hpc,          \* position of handleProcess
    docIdx,       \* i of the loop over urls, 0-based
    processed,    \* the records pushed so far
    results, loading, error, progressTotal, progressDone,
    decoded,      \* convertVanityToDigits(text)
    vpc,          \* position of the vanity decoding run
    pageSize,     \* pageW and pageH handed to paginateTextToPages
    wrapped,      \* lines: the wrapped lines of paginateTextToPages
    outPages,     \* pages: what paginateTextToPages has pushed
    ppc,          \* position of the paginator run
    req,          \* req.body of the /api/process invocation
    spc,          \* position of the /api/process handler
    responses,    \* the responses sent through res, in order
    srvText,      \* the handler's text / replaced
    fontRes,      \* the response of fetch(FONT_URL)
    fontFetches,  \* the calls of fetch(FONT_URL) for the current document
    collapsed,    \* collapseSpelledDigits(text)
    cpc,          \* position of the spelled-digit run
    spelled,      \* the parts the text of the spelled-digit run was built from
    seg,          \* toPresentable(text, newNumber) and its intermediate lists
    tpc,          \* position of the segmentation run
    layout,       \* presentablePdf: page size, cursorY, blocks left, draws
    lpc,          \* position of presentablePdf
    zip           \* the archive of downloadAllZip: its entries in order

matchVars == <<replacement, lastIndex, matches, replaced, mpc>>
normVars == <<normOnce, normTwice, npc>>
inplaceVars == <<doc, ipc, pageNo, lines, lineNo, draws, lastBox, lineLog>>
batchVars == <<urls, layoutMode, aiMode, hpc, docIdx, processed, results,
               loading, error, progressTotal, progressDone>>
serverVars == <<decoded, vpc, pageSize, wrapped, outPages, ppc, req, spc,
                responses, srvText>>
fontVars == <<fontRes, fontFetches>>
spelledVars == <<collapsed, cpc, spelled>>
presentVars == <<seg, tpc, layout, lpc>>
restVars == <<spelledVars, presentVars, zip>>
vars == <<text, matchVars, normVars, inplaceVars, batchVars, serverVars,
          fontVars, restVars>>

----------------------------------------------------------------------------
(* Generic helpers *)

Min(S) == CHOOSE x \in S : \A y \in S : x <= y
Max(S) == CHOOSE x \in S : \A y \in S : x >= y

RECURSIVE Flatten(_)
Flatten(ss) == IF ss = <<>> THEN <<>> ELSE Head(ss) \o Flatten(Tail(ss))

\* t.substring(a, b) for 0 <= a <= b <= t.length
Substring(t, a, b) == SubSeq(t, a + 1, b)

----------------------------------------------------------------------------
(* The phone pattern  /(\+?\d[\d\s\-().]{7,}\d)/g  *)

Digits == {"0", "1", "2", "3", "4", "5", "6", "7", "8", "9"}
\* \s : the white space and line terminator characters
WhiteSpace == {" ", "\t", "\n", "\r", "\f"}
Punct == {"-", "(", ")", "."}

IsDigit(c) == c \in Digits
InClassWithLetters(c) ==
    c \in Digits \cup WhiteSpace \cup Punct \cup {"a", "b", "c", "x"}

\* the character class [\d\s\-().]
InClass(c) == c \in Digits \cup WhiteSpace \cup Punct

\* the lower bound of the quantifier {7,}
MinRepeat == 7

\* first offset >= k at which the class run stops
ClassRunEnd(t, k) ==
    LET stop == {j \in k..(Len(t) - 1) : ~InClass(t[j + 1])}
    IN IF stop = {} THEN Len(t) ELSE Min(stop)

\* \d[\d\s\-().]{7,}\d tried with its first digit at offset p: the end offset
\* of the match (the greedy class run backs off to the last digit that leaves
\* at least MinRepeat class characters), or -1
BodyEndMinSix(t, p) ==
    IF p >= Len(t) \/ ~IsDigit(t[p + 1]) THEN -1
    ELSE LET r == ClassRunEnd(t, p + 1)
             cands == {j \in (p + 1 + (MinRepeat - 1))..(r - 1) : IsDigit(t[j + 1])}
         IN IF cands = {} THEN -1 ELSE Max(cands) + 1

BodyEnd(t, p) ==
    IF p >= Len(t) \/ ~IsDigit(t[p + 1]) THEN -1
    ELSE LET r == ClassRunEnd(t, p + 1)
             cands == {j \in (p + 1 + MinRepeat)..(r - 1) : IsDigit(t[j + 1])}
         IN IF cands = {} THEN -1 ELSE Max(cands) + 1

\* the whole pattern tried at offset i: \+? takes the '+' when there is one
MatchAt(t, i) ==
    IF i < Len(t) /\ t[i + 1] = "+" THEN BodyEnd(t, i + 1) ELSE BodyEnd(t, i)

NoMatch == [index |-> -1, end |-> -1]

\* RegExpBuiltinExec of a global regex: the leftmost match starting at or
\* after from, else null
RegExpExec(t, from) ==
    IF from > Len(t) THEN NoMatch
    ELSE LET starts == {i \in from..(Len(t) - 1) : MatchAt(t, i) # -1}
         IN IF starts = {} THEN NoMatch
            ELSE [index |-> Min(starts), end |-> MatchAt(t, Min(starts))]

\* lastIndex after exec returned m: the end of the match, or 0 after null
LastIndexAfterRestart(m) == IF m = NoMatch THEN 0 ELSE m.index + 1

LastIndexAfter(m) == IF m = NoMatch THEN 0 ELSE m.end

----------------------------------------------------------------------------
(* String.prototype.replace(globalRegex, replacementString) *)

\* GetSubstitution: $$, $&, $`, $', $1 and $01 (the pattern has one capture
\* group, the whole match); any other '$' is literal
RECURSIVE GetSubstitution(_, _, _, _)
GetSubstitution(r, k, t, m) ==
    IF k > Len(r) THEN <<>>
    ELSE IF r[k] # "$" \/ k = Len(r)
         THEN <<r[k]>> \o GetSubstitution(r, k + 1, t, m)
    ELSE IF r[k + 1] = "$" THEN <<"$">> \o GetSubstitution(r, k + 2, t, m)
    ELSE IF r[k + 1] = "&"
         THEN Substring(t, m.index, m.end) \o GetSubstitution(r, k + 2, t, m)
    ELSE IF r[k + 1] = "`"
         THEN Substring(t, 0, m.index) \o GetSubstitution(r, k + 2, t, m)
    ELSE IF r[k + 1] = "'"
         THEN Substring(t, m.end, Len(t)) \o GetSubstitution(r, k + 2, t, m)
    ELSE IF r[k + 1] = "1"
         THEN Substring(t, m.index, m.end) \o GetSubstitution(r, k + 2, t, m)
    ELSE IF r[k + 1] = "0" /\ k + 2 <= Len(r) /\ r[k + 2] = "1"
         THEN Substring(t, m.index, m.end) \o GetSubstitution(r, k + 3, t, m)
    ELSE <<"$">> \o GetSubstitution(r, k + 1, t, m)

\* the scan of replace: starts at lastIndex 0 and copies the text between
\* matches, substituting each match
RECURSIVE ReplaceFrom(_, _, _)
ReplaceFrom(t, r, from) ==
    LET m == RegExpExec(t, from)
    IN IF m = NoMatch THEN Substring(t, from, Len(t))
       ELSE Substring(t, from, m.index) \o GetSubstitution(r, 1, t, m)
            \o ReplaceFrom(t, r, LastIndexAfter(m))

ReplaceFirstOnly(t, r) ==
    LET m == RegExpExec(t, 0)
    IN IF m = NoMatch THEN t
       ELSE Substring(t, 0, m.index) \o GetSubstitution(r, 1, t, m)
            \o Substring(t, m.end, Len(t))

StringReplace(t, r) == ReplaceFrom(t, r, 0)

\* the matches a scan from offset 0 visits
RECURSIVE MatchesFrom(_, _)
MatchesFrom(t, from) ==
    LET m == RegExpExec(t, from)
    IN IF m = NoMatch THEN <<>> ELSE <<m>> \o MatchesFrom(t, LastIndexAfter(m))

----------------------------------------------------------------------------
(* Line assembly of one page (processInplaceClient, the loops over
   content.items and over lines) *)

LINE_Y_TOL == 2
WORD_GAP_TOL == 2

Abs(n) == IF n < 0 THEN -n ELSE n

\* Math.hypot(c, d), for the pairs whose hypotenuse is a whole number
Hypot(c, d) == CHOOSE h \in 0..(Abs(c) + Abs(d)) : h * h = c * c + d * d

\* const [, , c, d, e, f] = it.transform; x = e, y = f, width = it.width,
\* height = it.height || Math.hypot(c, d)
ToItem(it) ==
    [str |-> it.str, x |-> it.transform[5], y |-> it.transform[6],
     width |-> it.width,
     height |-> IF it.height # 0 THEN it.height
                ELSE Hypot(it.transform[3], it.transform[4])]

FindLineNearest(ls, y) ==
    LET near == {j \in 1..Len(ls) : Abs(ls[j].yRef - y) <= LINE_Y_TOL}
    IN IF near = {} THEN 0
       ELSE Min({j \in near : \A k \in near :
                    Abs(ls[j].yRef - y) <= Abs(ls[k].yRef - y)})

FindLineLoose(ls, y) ==
    LET near == {j \in 1..Len(ls) : Abs(ls[j].yRef - y) <= LINE_Y_TOL + 1}
    IN IF near = {} THEN 0 ELSE Min(near)

\* lines.find(L => Math.abs(L.yRef - y) <= LINE_Y_TOL): the index of the
\* first such line, 0 when there is none
FindLine(ls, y) ==
    LET near == {j \in 1..Len(ls) : Abs(ls[j].yRef - y) <= LINE_Y_TOL}
    IN IF near = {} THEN 0 ELSE Min(near)

\* the loop over content.items: each item joins the line found, or opens one
RECURSIVE GroupItems(_, _)
GroupItems(items, ls) ==
    IF items = <<>> THEN ls
    ELSE LET it == ToItem(Head(items))
             j == FindLine(ls, it.y)
         IN IF j = 0
            THEN GroupItems(Tail(items),
                            Append(ls, [yRef |-> it.y, items |-> <<it>>]))
            ELSE GroupItems(Tail(items),
                            [ls EXCEPT ![j].items = Append(@, it)])

\* Array.prototype.sort is stable: an element goes after the elements that
\* do not come after it

\* lines.sort((a,b) => b.yRef - a.yRef)
RECURSIVE SortLinesInto(_, _)
SortLinesInto(todo, sorted) ==
    IF todo = <<>> THEN sorted
    ELSE LET e == Head(todo)
             k == Cardinality({j \in 1..Len(sorted) : sorted[j].yRef >= e.yRef})
         IN SortLinesInto(Tail(todo),
                SubSeq(sorted, 1, k) \o <<e>> \o SubSeq(sorted, k + 1, Len(sorted)))

SortLinesKeepOrder(ls) == ls

SortLines(ls) == SortLinesInto(ls, <<>>)

\* L.items.sort((a,b) => a.x - b.x)
RECURSIVE SortItemsInto(_, _)
SortItemsInto(todo, sorted) ==
    IF todo = <<>> THEN sorted
    ELSE LET e == Head(todo)
             k == Cardinality({j \in 1..Len(sorted) : sorted[j].x <= e.x})
         IN SortItemsInto(Tail(todo),
                SubSeq(sorted, 1, k) \o <<e>> \o SubSeq(sorted, k + 1, Len(sorted)))

SortItems(items) == SortItemsInto(items, <<>>)

\* the walk over L.items that builds L.text and L.spans; idx is 0-based
RECURSIVE BuildLine(_, _, _, _)
BuildLineSpaceUncounted(items, idx, text0, spans0) ==
    IF idx >= Len(items) THEN [text |-> text0, spans |-> spans0]
    ELSE LET it == items[idx + 1]
             spaced == idx > 0 /\
                       it.x - (items[idx].x + items[idx].width) > WORD_GAP_TOL
             text1 == IF spaced THEN text0 \o <<" ">> ELSE text0
             text2 == text1 \o it.str
         IN BuildLine(items, idx + 1, text2,
                      Append(spans0, [start |-> Len(text0),
                                      end |-> Len(text0) + Len(it.str),
                                      itemIndex |-> idx]))

BuildLineGapAtLeast(items, idx, text0, spans0) ==
    IF idx >= Len(items) THEN [text |-> text0, spans |-> spans0]
    ELSE LET it == items[idx + 1]
             spaced == idx > 0 /\
                       it.x - (items[idx].x + items[idx].width) >= WORD_GAP_TOL
             text1 == IF spaced THEN text0 \o <<" ">> ELSE text0
             spans1 == IF spaced
                       THEN Append(spans0, [start |-> Len(text0),
                                            end |-> Len(text0) + 1,
                                            itemIndex |-> -1])
                       ELSE spans0
             text2 == text1 \o it.str
         IN BuildLine(items, idx + 1, text2,
                      Append(spans1, [start |-> Len(text1), end |-> Len(text2),
                                      itemIndex |-> idx]))

BuildLine(items, idx, text0, spans0) ==
    IF idx >= Len(items) THEN [text |-> text0, spans |-> spans0]
    ELSE LET it == items[idx + 1]
             spaced == idx > 0 /\
                       it.x - (items[idx].x + items[idx].width) > WORD_GAP_TOL
             text1 == IF spaced THEN text0 \o <<" ">> ELSE text0
             spans1 == IF spaced
                       THEN Append(spans0, [start |-> Len(text0),
                                            end |-> Len(text0) + 1,
                                            itemIndex |-> -1])
                       ELSE spans0
             text2 == text1 \o it.str
         IN BuildLine(items, idx + 1, text2,
                      Append(spans1, [start |-> Len(text1), end |-> Len(text2),
                                      itemIndex |-> idx]))

\* one page's lines: grouped, sorted top to bottom, each sorted left to
\* right, then given its text and spans
AssembleLines(items) ==
    LET sorted == SortLines(GroupItems(items, <<>>))
    IN [k \in 1..Len(sorted) |->
           LET its == SortItems(sorted[k].items)
               built == BuildLine(its, 0, <<>>, <<>>)
           IN [yRef |-> sorted[k].yRef, items |-> its,
               text |-> built.text, spans |-> built.spans]]

----------------------------------------------------------------------------
(* Geometry: exact rational arithmetic on [n, d] with d > 0 in lowest terms *)

RECURSIVE Gcd(_, _)
Gcd(a, b) == IF b = 0 THEN a ELSE Gcd(b, a % b)

Rat(n, d) ==
    LET g == Gcd(Abs(n), Abs(d))
        sg == IF d < 0 THEN -1 ELSE 1
    IN [n |-> sg * (n \div g), d |-> sg * (d \div g)]

FromInt(k) == [n |-> k, d |-> 1]
RAdd(a, b) == Rat(a.n * b.d + b.n * a.d, a.d * b.d)
RSub(a, b) == Rat(a.n * b.d - b.n * a.d, a.d * b.d)
RMul(a, b) == Rat(a.n * b.n, a.d * b.d)
RLeq(a, b) == a.n * b.d <= b.n * a.d

\* PAD = 1.5, DRAW_SIZE = 10
PAD == Rat(3, 2)
DRAW_SIZE == 10
Half == Rat(1, 2)

UsedItemsStrictlyInside(L, mStart, mEnd) ==
    LET hit == SelectSeq(L.spans,
                   LAMBDA s : s.itemIndex >= 0 /\ s.start > mStart /\ s.end < mEnd)
    IN [k \in 1..Len(hit) |-> L.items[hit[k].itemIndex + 1]]

\* the fragments whose span overlaps the match [mStart, mEnd)
UsedItems(L, mStart, mEnd) ==
    LET hit == SelectSeq(L.spans,
                   LAMBDA s : s.itemIndex >= 0 /\ s.start < mEnd /\ s.end > mStart)
    IN [k \in 1..Len(hit) |-> L.items[hit[k].itemIndex + 1]]

SeqRange(f) == {f[k] : k \in 1..Len(f)}

SourceBoxPadInward(used) ==
    [minX |-> RAdd(FromInt(Min({u.x : u \in SeqRange(used)})), PAD),
     maxX |-> RSub(FromInt(Max({u.x + u.width : u \in SeqRange(used)})), PAD),
     topY |-> RAdd(FromInt(Max({u.y : u \in SeqRange(used)})), PAD),
     bottomY |-> RSub(FromInt(Min({u.y - u.height : u \in SeqRange(used)})), PAD)]

\* minX, maxX, topY, bottomY of the fragments used, padded
SourceBox(used) ==
    [minX |-> RSub(FromInt(Min({u.x : u \in SeqRange(used)})), PAD),
     maxX |-> RAdd(FromInt(Max({u.x + u.width : u \in SeqRange(used)})), PAD),
     topY |-> RAdd(FromInt(Max({u.y : u \in SeqRange(used)})), PAD),
     bottomY |-> RSub(FromInt(Min({u.y - u.height : u \in SeqRange(used)})), PAD)]

DestBoxNoFlip(b, vw, vh, pageW, pageH) ==
    LET scaleX == Rat(pageW, vw)
        scaleY == Rat(pageH, vh)
    IN [x |-> RMul(b.minX, scaleX),
        y |-> RMul(b.bottomY, scaleY),
        width |-> RMul(RSub(b.maxX, b.minX), scaleX),
        height |-> RMul(RSub(b.topY, b.bottomY), scaleY)]

\* pdfX, pdfY, pdfWidth, pdfHeight
DestBox(b, vw, vh, pageW, pageH) ==
    LET scaleX == Rat(pageW, vw)
        scaleY == Rat(pageH, vh)
        pdfTopFromBottom == RSub(FromInt(pageH), RMul(b.topY, scaleY))
        pdfHeight == RMul(RSub(b.topY, b.bottomY), scaleY)
    IN [x |-> RMul(b.minX, scaleX),
        y |-> RSub(pdfTopFromBottom, pdfHeight),
        width |-> RMul(RSub(b.maxX, b.minX), scaleX),
        height |-> pdfHeight]

\* page.drawRectangle({x, y, width, height, color: rgb(1,1,1)})
RectangleOp(box) ==
    [op |-> "rectangle", x |-> box.x, y |-> box.y,
     width |-> box.width, height |-> box.height, color |-> <<1, 1, 1>>]

TextOpAtBoxOrigin(box, newNumber) ==
    [op |-> "text", text |-> newNumber, x |-> box.x, y |-> box.y,
     size |-> DRAW_SIZE, maxWidth |-> box.width]

\* page.drawText(newNumber, {x + 0.5, y + 0.5, size, font, maxWidth})
TextOp(box, newNumber) ==
    [op |-> "text", text |-> newNumber, x |-> RAdd(box.x, Half),
     y |-> RAdd(box.y, Half), size |-> DRAW_SIZE,
     maxWidth |-> RSub(box.width, FromInt(1))]

----------------------------------------------------------------------------
(* The parts of the state a run does not use *)

NoDoc == [pages |-> <<>>]
NoBox == [used |-> <<>>]
NoLine == [text |-> <<>>, found |-> <<>>]

InplaceOff ==
    /\ doc = NoDoc /\ ipc = "off" /\ pageNo = 0 /\ lines = <<>> /\ lineNo = 0
    /\ draws = <<>> /\ lastBox = NoBox /\ lineLog = NoLine

NoReq == [pdfUrl |-> <<>>, newNumber |-> <<>>, mode |-> "rebuild"]
NoSize == [pageW |-> 0, pageH |-> 0]
NoFont == [ok |-> FALSE, body |-> "none"]

ServerOff ==
    /\ decoded = <<>> /\ vpc = "off"
    /\ pageSize = NoSize /\ wrapped = <<>> /\ outPages = <<>> /\ ppc = "off"
    /\ req = NoReq /\ spc = "off" /\ responses = <<>> /\ srvText = <<>>

FontOff == fontRes = NoFont /\ fontFetches = 0

\* what fetch(FONT_URL) resolves to: the font, an error page with a status
\* that is not ok, or a page that is not a font under an ok status; a
\* response that is not ok carries no font
FontResponses ==
    {[ok |-> TRUE, body |-> "font"],
     [ok |-> FALSE, body |-> "error page"],
     [ok |-> TRUE, body |-> "error page"]}

IsFontAnything(body) == TRUE

\* pdfDoc.embedFont(fontBytes, {subset: true}) resolves: fontkit takes the
\* bytes for a font
IsFont(body) == body = "font"

NoSeg == [title |-> <<>>]
NoLayout == [pageW |-> 0, pageH |-> 0]
NoZip == <<>>

NoParts == [lead |-> <<>>, tail |-> <<>>]
SpelledOff == collapsed = <<>> /\ cpc = "off" /\ spelled = NoParts
PresentOff == seg = NoSeg /\ tpc = "off" /\ layout = NoLayout /\ lpc = "off"
RestOff == SpelledOff /\ PresentOff /\ zip = NoZip

BatchOff ==
    /\ urls = <<>> /\ layoutMode = "presentable" /\ aiMode = FALSE
    /\ hpc = "off" /\ docIdx = 0 /\ processed = <<>> /\ results = <<>>
    /\ loading = FALSE /\ error = "" /\ progressTotal = 0 /\ progressDone = 0

----------------------------------------------------------------------------
(* Matcher runs: inputs *)

MaxChunks == 4

SixDigits == <<"5", "5", "5", "1", "2", "3">>
DashedNumber == <<"5", "5", "5", "-", "1", "2", "3", "-", "4", "5", "6", "7">>
Chunks ==
    { <<"5">>, <<"+">>, <<"a">>, <<" ">>, <<"\n">>, SixDigits, DashedNumber }

RECURSIVE ChunkTexts(_)
ChunkTexts(n) ==
    IF n = 0 THEN {<<>>}
    ELSE LET shorter == ChunkTexts(n - 1)
         IN shorter \cup {s \o c : s \in shorter, c \in Chunks}

ScenarioText ==
    <<"c", "a", "l", "l", " ", "5", "5", "5", "-", "1", "2", "3", "-",
      "4", "5", "6", "7", " ", "n", "o", "w">>
ScenarioNumber == <<"+", "1", "-", "9", "9", "9", "-", "0", "0", "0", "0">>
ScenarioResult ==
    <<"c", "a", "l", "l", " ", "+", "1", "-", "9", "9", "9", "-", "0", "0",
      "0", "0", " ", "n", "o", "w">>

Replacements == { ScenarioNumber, <<"$", "&">>, <<"#", "$", "$", "1">> }

\* two digits with seven separators between them
SparseNumber == <<"5", "-", "(", ".", ")", " ", ".", "-", "7">>

InitMatch ==
    /\ text \in ChunkTexts(MaxChunks) \cup {ScenarioText, SparseNumber}
    /\ replacement = <<>>
    /\ lastIndex = 0
    /\ matches = <<>>
    /\ replaced = <<>>
    /\ mpc = "scan"
    /\ normOnce = <<>> /\ normTwice = <<>> /\ npc = "off"
    /\ InplaceOff /\ BatchOff /\ ServerOff /\ FontOff /\ RestOff

\* one test of the loop  while ((m = PHONE_RE.exec(raw)) !== null)
ExecLoop ==
    /\ mpc = "scan"
    /\ LET m == RegExpExec(text, lastIndex)
       IN /\ lastIndex' = LastIndexAfter(m)
          /\ IF m = NoMatch
             THEN /\ mpc' = "replace"
                  /\ UNCHANGED matches
             ELSE /\ matches' = Append(matches, m)
                  /\ UNCHANGED mpc
    /\ UNCHANGED <<text, restVars, serverVars, fontVars, replacement, replaced, normVars, batchVars, inplaceVars>>

\* const replaced = text.replace(phoneRegex, newNumber) on a fresh regex
ReplaceAll ==
    /\ mpc = "replace"
    /\ \E newNumber \in Replacements :
          /\ replacement' = newNumber
          /\ replaced' = StringReplace(text, newNumber)
    /\ mpc' = "done"
    /\ UNCHANGED <<text, restVars, serverVars, fontVars, lastIndex, matches, normVars, batchVars, inplaceVars>>

NextMatch == ExecLoop \/ ReplaceAll

SpecMatch == InitMatch /\ [][NextMatch]_vars

----------------------------------------------------------------------------
(* Properties of the matcher *)

StartsInOrder(ms) ==
    \A k \in 1..Len(ms) :
        /\ ms[k].index < ms[k].end
        /\ k > 1 => ms[k].index >= ms[k - 1].end

\* C3: the matches of a scan, by repeated exec (in-place mode) and by the
\* global replace (whole-text mode), come in increasing start order and each
\* starts at or after the end of the one before it: no two overlap.
C3_NonOverlap ==
    /\ StartsInOrder(matches)
    /\ StartsInOrder(MatchesFrom(text, 0))

C3_Witness ==
    /\ mpc = "done"
    /\ Len(matches) >= 2
    /\ matches[2].index > matches[1].end

\* the matched substring s has the shape: optional '+', a digit, 7 or more
\* characters drawn from between, a final digit
HasShape(s, between) ==
    LET p == IF s # <<>> /\ s[1] = "+" THEN 2 ELSE 1
    IN /\ Len(s) >= p + MinRepeat + 1
       /\ IsDigit(s[p])
       /\ IsDigit(s[Len(s)])
       /\ \A j \in (p + 1)..(Len(s) - 1) : s[j] \in between

\* C8 as claimed: inside a match only digits, the space, hyphen, period and
\* parentheses occur.
C8_PatternPolicyAsClaimed ==
    \A k \in 1..Len(matches) :
        HasShape(Substring(text, matches[k].index, matches[k].end),
                 Digits \cup {" "} \cup Punct)

\* C8: every match is an optional leading '+', a digit, 7 or more characters
\* each a digit, a white space character (space, tab or line break), a
\* hyphen, a period or a parenthesis, and a final digit.
C8_PatternPolicy ==
    \A k \in 1..Len(matches) :
        HasShape(Substring(text, matches[k].index, matches[k].end),
                 Digits \cup WhiteSpace \cup Punct)

C8_Witness ==
    /\ mpc = "done"
    /\ \E k \in 1..Len(matches) :
          /\ text[matches[k].index + 1] = "+"
          /\ \E j \in matches[k].index..(matches[k].end - 1) : text[j + 1] = "\n"
          /\ \E j \in matches[k].index..(matches[k].end - 1) : text[j + 1] = "-"

\* the text outside the matches ms, in order, with sub[k] put in place of
\* the k-th match
Interleave(t, ms, sub) ==
    Flatten([k \in 1..Len(ms) |->
                Substring(t, IF k = 1 THEN 0 ELSE ms[k - 1].end, ms[k].index)
                \o sub[k]])
    \o Substring(t, IF ms = <<>> THEN 0 ELSE ms[Len(ms)].end, Len(t))

\* C9: "call 555-123-4567 now" has the one match [5, 17), "555-123-4567",
\* and becomes "call +1-999-0000 now"; in general the replace substitutes
\* exactly the matched ranges (by the replacement, in which '$' patterns
\* are expanded) and keeps every character outside a match, in order.
C9_MatcherScenario ==
    mpc = "done" =>
        /\ replaced =
              Interleave(text, matches,
                  [k \in 1..Len(matches) |->
                      GetSubstitution(replacement, 1, text, matches[k])])
        /\ (\A j \in 1..Len(replacement) : replacement[j] # "$") =>
              replaced = Interleave(text, matches,
                                    [k \in 1..Len(matches) |-> replacement])
        /\ text = ScenarioText =>
              /\ matches = <<[index |-> 5, end |-> 17]>>
              /\ Substring(text, 5, 17) = DashedNumber
              /\ replacement = ScenarioNumber => replaced = ScenarioResult

C9_Witness ==
    /\ mpc = "done"
    /\ text = ScenarioText
    /\ replacement = ScenarioNumber
    /\ replaced = ScenarioResult

C9_WitnessTwo ==
    /\ mpc = "done"
    /\ Len(matches) = 2
    /\ replaced # text

\* the number of digits of s
DigitCount(s) == Cardinality({j \in 1..Len(s) : IsDigit(s[j])})

MatchText(k) == Substring(text, matches[k].index, matches[k].end)

----------------------------------------------------------------------------
(* normalizeWeird (pages/api/process.js) *)

\* the zero-width characters and the soft hyphen, by code point
ZeroWidth == {"U+200B", "U+200C", "U+200D", "U+FEFF", "U+00AD"}
\* the separator glyphs of the second replace, by code point, and '_'
OddSeparators ==
    {"U+21C4", "U+21CB", "U+2022", "U+00B7", "U+2013", "U+2014", "_"}
Letters ==
    {"a", "b", "c", "d", "e", "f", "g", "h", "i", "j", "k", "l", "m",
     "n", "o", "p", "q", "r", "s", "t", "u", "v", "w", "x", "y", "z",
     "A", "B", "C", "D", "E", "F", "G", "H", "I", "J", "K", "L", "M",
     "N", "O", "P", "Q", "R", "S", "T", "U", "V", "W", "X", "Y", "Z"}

IsSpace(c) == c \in WhiteSpace
IsLetter(c) == c \in Letters

\* .replace(/[\u200B-\u200D\uFEFF\u00AD]/g, "")
StripZeroWidth(t) == SelectSeq(t, LAMBDA c : c \notin ZeroWidth)

\* .replace(/[...]+/g, "-") : each maximal run of separator glyphs becomes "-"
UnifySeparators(t) ==
    LET last == SelectSeq([k \in 1..Len(t) |-> k],
                          LAMBDA k : ~(/\ t[k] \in OddSeparators
                                       /\ k < Len(t)
                                       /\ t[k + 1] \in OddSeparators))
    IN [j \in 1..Len(last) |->
           IF t[last[j]] \in OddSeparators THEN "-" ELSE t[last[j]]]

\* t with a space after every position of cut
SpaceAfter(t, cut) ==
    LET place(k) == k + Cardinality({j \in cut : j < k})
    IN [i \in 1..(Len(t) + Cardinality(cut)) |->
           LET at == {k \in 1..Len(t) : place(k) = i}
           IN IF at = {} THEN " " ELSE t[CHOOSE k \in at : TRUE]]

\* .replace(/([A-Za-z])(\d)/g, "$1 $2")
SplitLetterDigit(t) ==
    SpaceAfter(t, {k \in 1..(Len(t) - 1) : IsLetter(t[k]) /\ IsDigit(t[k + 1])})

\* .replace(/(\d)([A-Za-z])/g, "$1 $2")
SplitDigitLetter(t) ==
    SpaceAfter(t, {k \in 1..(Len(t) - 1) : IsDigit(t[k]) /\ IsLetter(t[k + 1])})

\* the white space run at the head of t
RECURSIVE SpaceRun(_)
SpaceRun(t) == IF t = <<>> \/ ~IsSpace(Head(t)) THEN 0 ELSE 1 + SpaceRun(Tail(t))

\* .replace(/\s{2,}/g, " ")
CollapseSpaces(t) ==
    LET first == SelectSeq([k \in 1..Len(t) |-> k],
                           LAMBDA k : ~(/\ IsSpace(t[k])
                                        /\ k > 1
                                        /\ IsSpace(t[k - 1])))
    IN [j \in 1..Len(first) |->
           IF /\ IsSpace(t[first[j]])
              /\ first[j] < Len(t)
              /\ IsSpace(t[first[j] + 1])
           THEN " " ELSE t[first[j]]]

\* .trim()
Trim(t) ==
    LET solid == {j \in 1..Len(t) : ~IsSpace(t[j])}
    IN IF solid = {} THEN <<>> ELSE SubSeq(t, Min(solid), Max(solid))

normalizeWeirdStripLast(t) ==
    StripZeroWidth(Trim(CollapseSpaces(SplitDigitLetter(SplitLetterDigit(
        UnifySeparators(t))))))

normalizeWeird(t) ==
    Trim(CollapseSpaces(SplitDigitLetter(SplitLetterDigit(
        UnifySeparators(StripZeroWidth(t))))))

MaxNormLen == 4

NormAlphabet == {"U+200B", "U+2022", "_", "a", "1", " ", "\n", "-"}

RECURSIVE StringsUpTo(_, _)
StringsUpTo(A, n) ==
    IF n = 0 THEN {<<>>}
    ELSE LET shorter == StringsUpTo(A, n - 1)
         IN shorter \cup {Append(s, c) : s \in shorter, c \in A}

InitNorm ==
    /\ text \in StringsUpTo(NormAlphabet, MaxNormLen)
    /\ normOnce = <<>> /\ normTwice = <<>> /\ npc = "start"
    /\ replacement = <<>> /\ lastIndex = 0 /\ matches = <<>>
    /\ replaced = <<>> /\ mpc = "off"
    /\ InplaceOff /\ BatchOff /\ ServerOff /\ FontOff /\ RestOff

\* text = normalizeWeird(text)
Normalize ==
    /\ npc = "start"
    /\ normOnce' = normalizeWeird(text)
    /\ npc' = "once"
    /\ UNCHANGED <<text, restVars, serverVars, fontVars, normTwice, matchVars, inplaceVars, batchVars>>

\* the normalizer applied to its own output
NormalizeAgain ==
    /\ npc = "once"
    /\ normTwice' = normalizeWeird(normOnce)
    /\ npc' = "done"
    /\ UNCHANGED <<text, restVars, serverVars, fontVars, normOnce, matchVars, inplaceVars, batchVars>>

NextNorm == Normalize \/ NormalizeAgain

SpecNorm == InitNorm /\ [][NextNorm]_vars

\* C10: normalizing an already normalized string changes nothing:
\* normalizeWeird(normalizeWeird(s)) = normalizeWeird(s) for every s.
C10_Idempotent == npc = "done" => normTwice = normOnce

C10_Witness ==
    /\ npc = "done"
    /\ normTwice = normOnce
    /\ text = <<"a", "U+200B", "1", "_">>
    /\ normOnce = <<"a", " ", "1", "-">>

----------------------------------------------------------------------------
(* convertVanityToDigits (pages/api/process.js) *)

Upper ==
    <<"A", "B", "C", "D", "E", "F", "G", "H", "I", "J", "K", "L", "M",
      "N", "O", "P", "Q", "R", "S", "T", "U", "V", "W", "X", "Y", "Z">>
Lower ==
    <<"a", "b", "c", "d", "e", "f", "g", "h", "i", "j", "k", "l", "m",
      "n", "o", "p", "q", "r", "s", "t", "u", "v", "w", "x", "y", "z">>

\* the digit of each letter of Upper, in order
VanityKeys ==
    <<"2", "2", "2", "3", "3", "3", "4", "4", "4", "5", "5", "5", "6",
      "6", "6", "7", "7", "7", "7", "8", "8", "8", "9", "9", "9", "9">>

\* ch.toUpperCase() of one character
ToUpperCase(ch) ==
    IF \E j \in 1..26 : Lower[j] = ch
    THEN Upper[CHOOSE j \in 1..26 : Lower[j] = ch]
    ELSE ch

\* VANITY_MAP[ch] || "" : a string of one digit, or the empty string
VANITY_MAP(ch) ==
    IF \E j \in 1..26 : Upper[j] = ch
    THEN <<VanityKeys[CHOOSE j \in 1..26 : Upper[j] = ch]>>
    ELSE <<>>

\* \w
IsWordChar(c) == IsLetter(c) \/ IsDigit(c) \/ c = "_"

\* \b at offset i of t
WordBoundary(t, i) ==
    (i >= 1 /\ IsWordChar(t[i])) # (i < Len(t) /\ IsWordChar(t[i + 1]))

\* [\s-]
IsPrefixSep(c) == IsSpace(c) \/ c = "-"

\* 00|33|44|55|66|77|88 after the 8
TollFreeCodes ==
    {<<"0", "0">>, <<"3", "3">>, <<"4", "4">>, <<"5", "5">>, <<"6", "6">>,
     <<"7", "7">>, <<"8", "8">>}

RECURSIVE LetterRunEnd(_, _)
LetterRunEnd(t, k) ==
    IF k < Len(t) /\ IsLetter(t[k + 1]) THEN LetterRunEnd(t, k + 1) ELSE k

\* the offset after the maximal run of [A-Za-z-] that starts at offset k
RECURSIVE WordRunEnd(_, _)
WordRunEnd(t, k) ==
    IF k < Len(t) /\ (IsLetter(t[k + 1]) \/ t[k + 1] = "-")
    THEN WordRunEnd(t, k + 1)
    ELSE k

NoVanity == [index |-> -1, prefixEnd |-> -1, end |-> -1]

\* the end of ([A-Za-z][A-Za-z-]{3,})\b for a word starting at offset w:
\* the longest end at a word boundary, -1 when there is none
VanityWordEnd(t, w) ==
    IF ~(w < Len(t) /\ IsLetter(t[w + 1])) THEN -1
    ELSE LET ends == {e \in (w + 4)..WordRunEnd(t, w + 1) : WordBoundary(t, e)}
         IN IF ends = {} THEN -1 ELSE Max(ends)

\* the match of the vanity pattern that starts at offset i, or NoVanity
VanityMatchAt(t, i) ==
    IF ~(WordBoundary(t, i) /\ i < Len(t) /\ t[i + 1] = "1") THEN NoVanity
    ELSE LET p2 == IF i + 1 < Len(t) /\ IsPrefixSep(t[i + 2])
                   THEN i + 2 ELSE i + 1
         IN IF ~(p2 + 3 <= Len(t) /\ t[p2 + 1] = "8"
                   /\ <<t[p2 + 2], t[p2 + 3]>> \in TollFreeCodes)
            THEN NoVanity
            ELSE LET p3 == p2 + 3
                     p4 == IF p3 < Len(t) /\ IsPrefixSep(t[p3 + 1])
                           THEN p3 + 1 ELSE p3
                     e == VanityWordEnd(t, p4)
                 IN IF e = -1 THEN NoVanity
                    ELSE [index |-> i, prefixEnd |-> p4, end |-> e]

\* word.replace(/[^A-Za-z]/g, "").toUpperCase().split("")
\*     .map(ch => VANITY_MAP[ch] || "").join("")
VanityDigits(word) ==
    LET letters == SelectSeq(word, IsLetter)
    IN Flatten([j \in 1..Len(letters) |-> VANITY_MAP(ToUpperCase(letters[j]))])

\* the callback: digits ? prefix + digits : prefix + word
VanityReplacement(prefix, word) ==
    IF VanityDigits(word) # <<>> THEN prefix \o VanityDigits(word)
    ELSE prefix \o word

\* s.replace(/.../gi, callback) from offset from on
RECURSIVE ConvertVanityFrom(_, _)
ConvertVanityFrom(t, from) ==
    LET starts == {i \in from..Len(t) : VanityMatchAt(t, i) # NoVanity}
    IN IF starts = {} THEN Substring(t, from, Len(t))
       ELSE LET m == VanityMatchAt(t, Min(starts))
            IN Substring(t, from, m.index)
                 \o VanityReplacement(Substring(t, m.index, m.prefixEnd),
                                      Substring(t, m.prefixEnd, m.end))
                 \o ConvertVanityFrom(t, m.end)

convertVanityToDigits(t) == ConvertVanityFrom(t, 0)

(* Inputs: an optional lead, "1", a separator, a three-digit code, a
   separator, a word of up to MaxWordLen characters, a tail *)

MaxWordLen == 5

Flowers == <<"1", "-", "8", "0", "0", "-", "F", "L", "O", "W", "E", "R", "S">>
FlowersDecoded ==
    <<"1", "-", "8", "0", "0", "-", "3", "5", "6", "9", "3", "7", "7">>
\* "x 1 888 GO-FEDEX, 1800flowers"
TwoVanity ==
    <<"x", " ", "1", " ", "8", "8", "8", " ", "G", "O", "-", "F", "E", "D",
      "E", "X", ",", " ", "1", "8", "0", "0", "f", "l", "o", "w", "e", "r", "s">>
TwoVanityDecoded ==
    <<"x", " ", "1", " ", "8", "8", "8", " ", "4", "6", "3", "3", "3", "3",
      "9", ",", " ", "1", "8", "0", "0", "3", "5", "6", "9", "3", "7", "7">>

VanityTexts ==
    {lead \o <<"1">> \o sep1 \o code \o sep2 \o word \o tail :
        lead \in {<<>>, <<"x">>},
        sep1 \in {<<>>, <<"-">>},
        code \in {<<"8", "0", "0">>, <<"8", "7", "7">>, <<"8", "1", "0">>},
        sep2 \in {<<>>, <<"-">>, <<" ">>},
        word \in StringsUpTo({"A", "y", "-"}, MaxWordLen),
        tail \in {<<>>, <<"5">>, <<" ">>}}
    \cup {Flowers, TwoVanity}

InitVanity ==
    /\ text \in VanityTexts
    /\ decoded = <<>> /\ vpc = "start"
    /\ pageSize = NoSize /\ wrapped = <<>> /\ outPages = <<>> /\ ppc = "off"
    /\ req = NoReq /\ spc = "off" /\ responses = <<>> /\ srvText = <<>>
    /\ replacement = <<>> /\ lastIndex = 0 /\ matches = <<>>
    /\ replaced = <<>> /\ mpc = "off"
    /\ normOnce = <<>> /\ normTwice = <<>> /\ npc = "off"
    /\ InplaceOff /\ BatchOff /\ FontOff /\ RestOff

\* text = convertVanityToDigits(text)
ConvertVanity ==
    /\ vpc = "start"
    /\ decoded' = convertVanityToDigits(text)
    /\ vpc' = "done"
    /\ UNCHANGED <<text, restVars, matchVars, normVars, inplaceVars, batchVars, fontVars,
                   pageSize, wrapped, outPages, ppc, req, spc, responses,
                   srvText>>

NextVanity == ConvertVanity

SpecVanity == InitVanity /\ [][NextVanity]_vars

\* some substring of t is, at a word boundary, "1", an optional separator,
\* 8 and a toll-free code, an optional separator, and a word of 4 or more
\* characters that starts with a letter, continues with letters or
\* hyphens, holds at least minLetters letters and ends at a word boundary
HasVanityShape(t, minLetters) ==
    \E i \in 0..Len(t) : \E e \in i..Len(t) :
        \E s1 \in 0..1 : \E s2 \in 0..1 :
            LET w == i + 1 + s1 + 3 + s2
            IN /\ e >= w + 4
               /\ WordBoundary(t, i) /\ WordBoundary(t, e)
               /\ t[i + 1] = "1"
               /\ s1 = 1 => IsPrefixSep(t[i + 2])
               /\ t[i + s1 + 2] = "8"
               /\ <<t[i + s1 + 3], t[i + s1 + 4]>> \in TollFreeCodes
               /\ s2 = 1 => IsPrefixSep(t[w])
               /\ IsLetter(t[w + 1])
               /\ \A j \in (w + 1)..e : IsLetter(t[j]) \/ t[j] = "-"
               /\ Cardinality({j \in (w + 1)..e : IsLetter(t[j])}) >= minLetters

CountOf(t, S) == Cardinality({j \in 1..Len(t) : t[j] \in S})

\* C13 as claimed: only text holding a toll-free prefix followed by a word
\* of 4 or more letters is rewritten.
C13_VanityAsClaimed ==
    vpc = "done" => (decoded # text => HasVanityShape(text, 4))

\* C13: text is rewritten exactly when it holds a toll-free prefix followed
\* by a word that starts with a letter and goes on with 3 or more letters
\* or hyphens; every letter rewritten gives one digit, the hyphens of the
\* word are dropped, everything else is kept in order;
\* "1-800-FLOWERS" becomes "1-800-3569377".
C13_VanityDecoding ==
    vpc = "done" =>
        /\ (decoded # text) = HasVanityShape(text, 1)
        /\ CountOf(text, Letters) - CountOf(decoded, Letters)
              = CountOf(decoded, Digits) - CountOf(text, Digits)
        /\ Len(text) - Len(decoded)
              = CountOf(text, {"-"}) - CountOf(decoded, {"-"})
        /\ SelectSeq(text, LAMBDA c : ~IsLetter(c) /\ ~IsDigit(c) /\ c # "-")
              = SelectSeq(decoded, LAMBDA c : ~IsLetter(c) /\ ~IsDigit(c) /\ c # "-")
        /\ text = Flowers => decoded = FlowersDecoded
        /\ text = TwoVanity => decoded = TwoVanityDecoded

C13_Witness ==
    /\ vpc = "done"
    /\ text = Flowers
    /\ decoded = FlowersDecoded

----------------------------------------------------------------------------
(* collapseSpelledDigits (pages/api/process.js) *)

\* the words of the map, in the order of their digits 0..9
DigitWords ==
    <<<<"z", "e", "r", "o">>, <<"o", "n", "e">>, <<"t", "w", "o">>,
      <<"t", "h", "r", "e", "e">>, <<"f", "o", "u", "r">>,
      <<"f", "i", "v", "e">>, <<"s", "i", "x">>,
      <<"s", "e", "v", "e", "n">>, <<"e", "i", "g", "h", "t">>,
      <<"n", "i", "n", "e">>>>

DigitChars == <<"0", "1", "2", "3", "4", "5", "6", "7", "8", "9">>

\* ch.toLowerCase() of one character
ToLowerCase(ch) ==
    IF \E j \in 1..26 : Upper[j] = ch
    THEN Lower[CHOOSE j \in 1..26 : Upper[j] = ch]
    ELSE ch

\* word w stands at offset k of t, whatever the case
WordAt(t, k, w) ==
    /\ k + Len(w) <= Len(t)
    /\ \A j \in 1..Len(w) : ToLowerCase(t[k + j]) = w[j]

\* the alternation  \bzero|one|two|...|eight|nine\b  at offset k: the index
\* in DigitWords of the word matched, 0 when none; only zero carries the
\* leading \b and only nine the trailing one
SpelledWordAt(t, k) ==
    LET fits == {j \in 1..10 :
                    /\ WordAt(t, k, DigitWords[j])
                    /\ j = 1 => WordBoundary(t, k)
                    /\ j = 10 => WordBoundary(t, k + 4)}
    IN IF fits = {} THEN 0 ELSE Min(fits)

\* -, en dash, em dash
Dashes == {"-", "U+2013", "U+2014"}

\* the offset after  \s*(?:-|en dash|em dash)?\s*  from offset k
AfterSeparator(t, k) ==
    LET p1 == k + SpaceRun(SubSeq(t, k + 1, Len(t)))
        p2 == IF p1 < Len(t) /\ t[p1 + 1] \in Dashes THEN p1 + 1 ELSE p1
    IN p2 + SpaceRun(SubSeq(t, p2 + 1, Len(t)))

\* the greedy repetition from offset k on, n groups matched so far
RECURSIVE SpelledRun(_, _, _)
SpelledRun(t, k, n) ==
    LET j == SpelledWordAt(t, k)
    IN IF j = 0 THEN [end |-> k, count |-> n]
       ELSE SpelledRun(t, AfterSeparator(t, k + Len(DigitWords[j])), n + 1)

\* m.replace(/\b(zero|...|nine)\b/gi, (_, w) => map[w.toLowerCase()])
RECURSIVE ReplaceDigitWords(_, _)
ReplaceDigitWords(m, k) ==
    IF k >= Len(m) THEN <<>>
    ELSE LET fits == {j \in 1..10 :
                         /\ WordAt(m, k, DigitWords[j])
                         /\ WordBoundary(m, k)
                         /\ WordBoundary(m, k + Len(DigitWords[j]))}
         IN IF fits = {}
            THEN <<m[k + 1]>> \o ReplaceDigitWords(m, k + 1)
            ELSE <<DigitChars[Min(fits)]>>
                   \o ReplaceDigitWords(m, k + Len(DigitWords[Min(fits)]))

\* the callback: the words replaced, then .replace(/[^\d]+/g, "")
CollapseMatch(m) == SelectSeq(ReplaceDigitWords(m, 0), IsDigit)

\* s.replace(/(?:...){7,}/gi, callback) from offset from on
RECURSIVE CollapseFrom(_, _)
CollapseFrom(t, from) ==
    LET starts == {i \in from..Len(t) : SpelledRun(t, i, 0).count >= 7}
    IN IF starts = {} THEN Substring(t, from, Len(t))
       ELSE LET i == Min(starts)
                e == SpelledRun(t, i, 0).end
            IN Substring(t, from, i) \o CollapseMatch(Substring(t, i, e))
                 \o CollapseFrom(t, e)

collapseSpelledDigits(t) == CollapseFrom(t, 0)

\* text = collapseSpelledDigits(text)
CollapseSpelled ==
    /\ cpc = "start"
    /\ collapsed' = collapseSpelledDigits(text)
    /\ cpc' = "done"
    /\ UNCHANGED <<text, spelled, matchVars, normVars, inplaceVars, batchVars,
                   serverVars, fontVars, presentVars, zip>>

NextSpelled == CollapseSpelled

(* Inputs: a lead, count digit words in the cyclic order zero, one, ...,
   nine from some start, all in lower or all in upper case, with one
   separator between them, and a tail *)

MaxRun == 8

\* the words start, start + 1, ... , count of them, sep between two words
RECURSIVE SpelledWords(_, _, _, _)
SpelledWords(start, count, sep, upper) ==
    IF count = 0 THEN <<>>
    ELSE LET w == DigitWords[(start % 10) + 1]
             word == IF upper THEN [j \in 1..Len(w) |-> ToUpperCase(w[j])]
                     ELSE w
         IN word \o (IF count > 1 THEN sep ELSE <<>>)
                 \o SpelledWords(start + 1, count - 1, sep, upper)

\* the digits of those words
RECURSIVE RunDigits(_, _)
RunDigits(start, count) ==
    IF count = 0 THEN <<>>
    ELSE <<DigitChars[(start % 10) + 1]>> \o RunDigits(start + 1, count - 1)

WordSeparators == {<<" ">>, <<"-">>, <<" ", "-", " ">>, <<>>}
Leads == {<<>>, <<"c", "a", "l", "l", " ">>}
Tails == {<<>>, <<" ", "n", "o", "w">>, <<".">>}

SpelledParts ==
    [lead : Leads, start : 0..9, count : 6..MaxRun, sep : WordSeparators,
     upper : BOOLEAN, tail : Tails]

InitSpelled ==
    /\ spelled \in SpelledParts
    /\ text = spelled.lead
                \o SpelledWords(spelled.start, spelled.count, spelled.sep, spelled.upper)
                \o spelled.tail
    /\ collapsed = <<>> /\ cpc = "start"
    /\ replacement = <<>> /\ lastIndex = 0 /\ matches = <<>>
    /\ replaced = <<>> /\ mpc = "off"
    /\ normOnce = <<>> /\ normTwice = <<>> /\ npc = "off"
    /\ InplaceOff /\ BatchOff /\ ServerOff /\ FontOff
    /\ PresentOff /\ zip = NoZip

SpecSpelled == InitSpelled /\ [][NextSpelled]_vars

\* C23: a run of n >= 7 digit words, separated by spaces or a dash or by
\* nothing, becomes the n digits in order while the text before and after
\* the run stays as it is; text with fewer than 7 digit words in a row is
\* unchanged
C23_SpelledCollapse ==
    cpc = "done" =>
        IF spelled.count >= 7
        THEN collapsed
               = spelled.lead \o RunDigits(spelled.start, spelled.count) \o spelled.tail
        ELSE collapsed = text

----------------------------------------------------------------------------
(* paginateTextToPages(pdfDoc, font, text, pageW, pageH) with the default
   margin = 36, size = 10, lineH = 12 (pages/api/process.js) *)

MARGIN == 36
LINE_H == 12

\* text.split(/\s+/)
RECURSIVE SplitWhiteSpace(_)
SplitWhiteSpace(t) ==
    LET blanks == {j \in 1..Len(t) : IsSpace(t[j])}
    IN IF blanks = {} THEN <<t>>
       ELSE LET first == Min(blanks)
                run == SpaceRun(SubSeq(t, first, Len(t)))
            IN <<SubSeq(t, 1, first - 1)>>
                 \o SplitWhiteSpace(SubSeq(t, first + run, Len(t)))

\* the advance width of one character at size 10: a narrow and a wide glyph
GlyphWidth(c) == IF c \in {"i", " "} THEN 3 ELSE 6

\* font.widthOfTextAtSize(t, size)
RECURSIVE widthOf(_)
widthOf(t) == IF t = <<>> THEN 0 ELSE GlyphWidth(Head(t)) + widthOf(Tail(t))

RECURSIVE SplitTokenDropsChar(_, _, _, _, _)
SplitTokenDropsChar(token, j, chunk, ls, maxWidth) ==
    IF j > Len(token) THEN [chunk |-> chunk, lines |-> ls]
    ELSE LET t2 == Append(chunk, token[j])
         IN IF widthOf(t2) <= maxWidth
            THEN SplitTokenDropsChar(token, j + 1, t2, ls, maxWidth)
            ELSE SplitTokenDropsChar(token, j + 1, <<>>, Append(ls, chunk),
                                     maxWidth)

\* the loop  for (const ch of token)  from character j on
RECURSIVE SplitToken(_, _, _, _, _)
SplitToken(token, j, chunk, ls, maxWidth) ==
    IF j > Len(token) THEN [chunk |-> chunk, lines |-> ls]
    ELSE LET t2 == Append(chunk, token[j])
         IN IF widthOf(t2) <= maxWidth
            THEN SplitToken(token, j + 1, t2, ls, maxWidth)
            ELSE SplitToken(token, j + 1, <<token[j]>>, Append(ls, chunk),
                            maxWidth)

\* the loop  for (const w of words)  from word k on, then the last push
RECURSIVE WrapWords(_, _, _, _, _)
WrapWords(words, k, cur, ls, maxWidth) ==
    IF k > Len(words)
    THEN IF cur # <<>> THEN Append(ls, cur) ELSE ls
    ELSE LET w == words[k]
             test == IF cur # <<>> THEN cur \o <<" ">> \o w ELSE w
         IN IF widthOf(test) <= maxWidth
            THEN WrapWords(words, k + 1, test, ls, maxWidth)
            ELSE LET ls1 == IF cur # <<>> THEN Append(ls, cur) ELSE ls
                 IN IF widthOf(w) > maxWidth
                    THEN LET cut == SplitToken(w, 1, <<>>, ls1, maxWidth)
                         IN WrapWords(words, k + 1, cut.chunk, cut.lines,
                                      maxWidth)
                    ELSE WrapWords(words, k + 1, w, ls1, maxWidth)

\* lines, before the pagination loop
WrapLines(t, pageW) ==
    WrapWords(SplitWhiteSpace(t), 1, <<>>, <<>>, pageW - MARGIN * 2)

MaxLinesOneMore(pageH) == (pageH - MARGIN * 2) \div LINE_H + 1

\* Math.floor((pageH - margin * 2) / lineH)
MaxLines(pageH) == (pageH - MARGIN * 2) \div LINE_H

\* Array.prototype.slice(a, b)
Slice(q, a, b) ==
    LET from == IF a < 0 THEN Max({Len(q) + a, 0}) ELSE Min({a, Len(q)})
        to == IF b < 0 THEN Max({Len(q) + b, 0}) ELSE Min({b, Len(q)})
    IN SubSeq(q, from + 1, to)

\* Array.prototype.join(sep)
RECURSIVE Join(_, _)
Join(q, sep) ==
    IF q = <<>> THEN <<>>
    ELSE IF Len(q) = 1 THEN q[1]
    ELSE q[1] \o <<sep>> \o Join(Tail(q), sep)

\* a spinning pagination loop is followed for this many pushes
MaxSpin == 3

\* i of the pagination loop: maxLines added once for each page pushed
PageLoopIndex == Len(outPages) * MaxLines(pageSize.pageH)

\* the word wrap: from the call to the start of the pagination loop
WrapText ==
    /\ ppc = "start"
    /\ wrapped' = WrapLines(srvText, pageSize.pageW)
    /\ outPages' = <<>>
    /\ ppc' = "paginate"
    /\ UNCHANGED <<text, restVars, matchVars, normVars, inplaceVars, batchVars, fontVars,
                   decoded, vpc, pageSize, req, spc, responses, srvText>>

\* one turn of  for (let i = 0; i < lines.length; i += maxLines)
PushPage ==
    /\ ppc = "paginate"
    /\ PageLoopIndex < Len(wrapped)
    /\ MaxLines(pageSize.pageH) >= 1 \/ Len(outPages) < MaxSpin
    /\ outPages' = Append(outPages,
           Join(Slice(wrapped, PageLoopIndex,
                      PageLoopIndex + MaxLines(pageSize.pageH)), "\n"))
    /\ UNCHANGED <<text, restVars, matchVars, normVars, inplaceVars, batchVars, fontVars,
                   decoded, vpc, pageSize, wrapped, ppc, req, spc, responses,
                   srvText>>

\* return pages
PaginateReturn ==
    /\ ppc = "paginate"
    /\ PageLoopIndex >= Len(wrapped)
    /\ ppc' = "done"
    /\ UNCHANGED <<text, restVars, matchVars, normVars, inplaceVars, batchVars, fontVars,
                   decoded, vpc, pageSize, wrapped, outPages, req, spc,
                   responses, srvText>>

NextPaginate == WrapText \/ PushPage \/ PaginateReturn

(* Inputs: texts of up to MaxTokens tokens, three page widths, page heights
   around the margins, and the 23-line scenario *)

MaxTokens == 4

Tokens ==
    {<<"a", "b">>, <<"i">>, <<" ">>, <<"\n", " ">>,
     <<"a", "b", "c", "d", "e", "f", "g", "h">>}

RECURSIVE TokenTexts(_)
TokenTexts(n) ==
    IF n = 0 THEN {<<>>}
    ELSE LET shorter == TokenTexts(n - 1)
         IN shorter \cup {s \o c : s \in shorter, c \in Tokens}

\* "w w ... w", n words
RECURSIVE WordsText(_)
WordsText(n) ==
    IF n = 1 THEN <<"w">> ELSE WordsText(n - 1) \o <<" ", "w">>

\* 23 words on a page that holds 10 lines of one word
TwentyThreeWords == WordsText(23)
ScenarioPage == [pageW |-> 80, pageH |-> 200]

PageWidths == {75, 84, 132}
PageHeights == {60, 80, 84, 96, 108}

InitPaginate ==
    /\ \/ /\ srvText \in TokenTexts(MaxTokens)
          /\ pageSize \in [pageW : PageWidths, pageH : PageHeights]
       \/ /\ srvText = TwentyThreeWords
          /\ pageSize = ScenarioPage
    /\ ppc = "start" /\ wrapped = <<>> /\ outPages = <<>>
    /\ decoded = <<>> /\ vpc = "off"
    /\ req = NoReq /\ spc = "off" /\ responses = <<>>
    /\ text = <<>> /\ replacement = <<>> /\ lastIndex = 0 /\ matches = <<>>
    /\ replaced = <<>> /\ mpc = "off"
    /\ normOnce = <<>> /\ normTwice = <<>> /\ npc = "off"
    /\ InplaceOff /\ BatchOff /\ FontOff /\ RestOff

SpecPaginate == InitPaginate /\ [][NextPaginate]_vars

\* page.split("\n"): the lines a page holds
RECURSIVE SplitOn(_, _)
SplitOn(t, sep) ==
    LET at == {j \in 1..Len(t) : t[j] = sep}
    IN IF at = {} THEN <<t>>
       ELSE <<SubSeq(t, 1, Min(at) - 1)>>
              \o SplitOn(SubSeq(t, Min(at) + 1, Len(t)), sep)

\* C14: with L wrapped lines and maxLines >= 1 the paginator returns
\* ceil(L / maxLines) pages; every page but the last holds maxLines lines,
\* the last holds between 1 and maxLines, and the pages in order hold the
\* wrapped lines in order; 23 lines at 10 a page give 10, 10 and 3 lines.
C14_Pagination ==
    (ppc = "done" /\ (pageSize.pageH - 2 * 36) \div 12 >= 1) =>
        LET n == (pageSize.pageH - 2 * 36) \div 12
            held == [k \in 1..Len(outPages) |-> SplitOn(outPages[k], "\n")]
        IN /\ Len(outPages) = (Len(wrapped) + n - 1) \div n
           /\ \A k \in 1..(Len(outPages) - 1) : Len(held[k]) = n
           /\ outPages # <<>> =>
                 /\ Len(held[Len(outPages)]) >= 1
                 /\ Len(held[Len(outPages)]) <= n
           /\ Flatten(held) = wrapped
           /\ (Len(wrapped) = 23 /\ n = 10) =>
                 /\ Len(outPages) = 3
                 /\ Len(held[1]) = 10 /\ Len(held[2]) = 10 /\ Len(held[3]) = 3

C14_Witness ==
    /\ ppc = "done"
    /\ Len(wrapped) = 23
    /\ pageSize.pageH = 200
    /\ Len(outPages) = 3
    /\ Len(SplitOn(outPages[3], "\n")) = 3

\* t with its white space removed
StripSpace(t) == SelectSeq(t, LAMBDA c : ~IsSpace(c))

\* C25: the reflow keeps the content: the wrapped lines joined in order, and
\* the lines of all returned pages joined in order, with white space
\* removed, are the input text with white space removed
C25_ReflowKeepsContent ==
    /\ ppc # "start" => StripSpace(Flatten(wrapped)) = StripSpace(srvText)
    /\ ppc = "done" => StripSpace(Flatten(outPages)) = StripSpace(srvText)

\* a token wider than the line, cut into four lines on four pages
C25_Witness ==
    /\ ppc = "done"
    /\ srvText = <<"a", "b", "c", "d", "e", "f", "g", "h">>
    /\ pageSize = [pageW |-> 84, pageH |-> 84]
    /\ outPages = <<<<"a", "b">>, <<"c", "d">>, <<"e", "f">>, <<"g", "h">>>>

(* The pagination loop alone, entered with the lines of the word wrap *)

InitPaginateLoop ==
    /\ \/ /\ srvText \in TokenTexts(MaxTokens)
          /\ pageSize \in [pageW : PageWidths, pageH : PageHeights]
       \/ /\ srvText = TwentyThreeWords
          /\ pageSize = ScenarioPage
    /\ ppc = "paginate" /\ outPages = <<>>
    /\ wrapped = WrapLines(srvText, pageSize.pageW)
    /\ decoded = <<>> /\ vpc = "off"
    /\ req = NoReq /\ spc = "off" /\ responses = <<>>
    /\ text = <<>> /\ replacement = <<>> /\ lastIndex = 0 /\ matches = <<>>
    /\ replaced = <<>> /\ mpc = "off"
    /\ normOnce = <<>> /\ normTwice = <<>> /\ npc = "off"
    /\ InplaceOff /\ BatchOff /\ FontOff /\ RestOff

NextPaginateLoop == PushPage \/ PaginateReturn

\* a turn of the loop that can be taken is taken
SpecPaginateLoop ==
    InitPaginateLoop /\ [][NextPaginateLoop]_vars /\ WF_vars(NextPaginateLoop)

\* C24: the pagination returns after finitely many steps for every text,
\* page width and page height, the heights that give maxLines <= 0 included
C24_PaginationReturns == <>(ppc = "done")

\* C21: every line the word wrap produces is non-empty and no wider than
\* the available width pageW - 2 * margin, the lines cut out of a token that
\* is wider than the available width included
C21_WrapWidth ==
    ppc # "start" =>
        \A k \in 1..Len(wrapped) :
            /\ wrapped[k] # <<>>
            /\ widthOf(wrapped[k]) <= pageSize.pageW - 2 * 36

----------------------------------------------------------------------------
(* toPresentable(text, newNumber) (unnamed/part_003) *)

\* normalizeWeird of part_003: zero-width characters, separator glyphs,
\* white space runs and trim; letters and digits are not split apart
normalizeWeirdPlain(t) ==
    Trim(CollapseSpaces(UnifySeparators(StripZeroWidth(t))))

\* t.split(/\r?\n/).map((s) => s.trim())
RawLines(t) ==
    LET parts == SplitOn(t, "\n")
    IN [k \in 1..Len(parts) |-> Trim(parts[k])]

\* the positions of the lines that are not empty: rawLines.filter(Boolean)
NonEmptyPositions(ls) ==
    SelectSeq([k \in 1..Len(ls) |-> k], LAMBDA k : ls[k] # <<>>)

SUBTITLE_MAX == 120

DefaultTitle == <<"D", "o", "c", "u", "m", "e", "n", "t">>

\* line.toLowerCase()
LowerCase(t) == [k \in 1..Len(t) |-> ToLowerCase(t[k])]

\* (line.match(/\d/g) || []).length >= 7 && line.replace(/\D/g, "").length < 4
DigitArtifact(line) ==
    /\ DigitCount(line) >= 7
    /\ Len(SelectSeq(line, IsDigit)) < 4

\* the loop over rawLines.slice(1), from position k on: the positions of the
\* lines pushed to bodyLines
RECURSIVE BodyPositions(_, _, _, _)
BodyPositions(ls, k, seen, kept) ==
    IF k > Len(ls) THEN kept
    ELSE LET line == ls[k]
             key == LowerCase(line)
         IN IF line = <<>> THEN BodyPositions(ls, k + 1, seen, Append(kept, k))
            ELSE IF key \in seen THEN BodyPositions(ls, k + 1, seen, kept)
            ELSE IF DigitArtifact(line)
                 THEN BodyPositions(ls, k + 1, seen \cup {key}, kept)
            ELSE BodyPositions(ls, k + 1, seen \cup {key}, Append(kept, k))

BulletMarks == {"-", "U+2022", "U+00B7", "*"}

\* the digits at the head of t
RECURSIVE DigitRun(_)
DigitRun(t) == IF t = <<>> \/ ~IsDigit(Head(t)) THEN 0 ELSE 1 + DigitRun(Tail(t))

\* the length of what /^(?:[-•·*]|(\d+\.))\s+/ matches at the head of line,
\* 0 when it does not match
BulletPrefix(line) ==
    LET d == DigitRun(line)
        mark == IF line # <<>> /\ line[1] \in BulletMarks THEN 1
                ELSE IF d >= 1 /\ Len(line) > d /\ line[d + 1] = "." THEN d + 1
                ELSE 0
        blank == SpaceRun(SubSeq(line, mark + 1, Len(line)))
    IN IF mark > 0 /\ blank > 0 THEN mark + blank ELSE 0

\* line.replace(/^(?:[-•·*]|\d+\.)\s+/, "• ")
BulletText(line) ==
    <<"U+2022", " ">> \o SubSeq(line, BulletPrefix(line) + 1, Len(line))

\* the loop over bodyLines from line k on; para holds the lines of the
\* paragraph being gathered, paras the lines of the paragraphs pushed
RECURSIVE SegmentBody(_, _, _, _, _)
SegmentBody(body, k, bullets, paras, para) ==
    LET flushed == IF para # <<>> THEN Append(paras, para) ELSE paras
    IN IF k > Len(body) THEN [bullets |-> bullets, paras |-> flushed]
       ELSE IF body[k] = <<>>
            THEN SegmentBody(body, k + 1, bullets, flushed, <<>>)
       ELSE IF BulletPrefix(body[k]) > 0
            THEN SegmentBody(body, k + 1, Append(bullets, BulletText(body[k])),
                             flushed, <<>>)
       ELSE SegmentBody(body, k + 1, bullets, paras, Append(para, body[k]))

\* toPresentable with its intermediate lists: rawLines, the positions pushed
\* to bodyLines and the lines gathered into each paragraph
Segmentation(t, newNumber) ==
    LET replacedText ==
            StringReplace(convertVanityToDigits(normalizeWeirdPlain(t)),
                          newNumber)
        rawLines == RawLines(replacedText)
        nonEmpty == NonEmptyPositions(rawLines)
        kept == BodyPositions(rawLines, 2, {}, <<>>)
        body == [j \in 1..Len(kept) |-> rawLines[kept[j]]]
        parts == SegmentBody(body, 1, <<>>, <<>>, <<>>)
    IN [title |-> IF nonEmpty # <<>> THEN rawLines[nonEmpty[1]]
                  ELSE DefaultTitle,
        subtitle |-> IF Len(nonEmpty) >= 2
                        /\ Len(rawLines[nonEmpty[2]]) < SUBTITLE_MAX
                     THEN rawLines[nonEmpty[2]] ELSE <<>>,
        bullets |-> parts.bullets,
        paragraphs |-> [j \in 1..Len(parts.paras) |-> Join(parts.paras[j], " ")],
        rawLines |-> rawLines,
        kept |-> kept,
        paraLines |-> parts.paras]

\* { title, subtitle, bullets, paragraphs }
toPresentable(t, newNumber) ==
    LET all == Segmentation(t, newNumber)
    IN [title |-> all.title, subtitle |-> all.subtitle,
        bullets |-> all.bullets, paragraphs |-> all.paragraphs]

\* const { title, subtitle, bullets, paragraphs } = toPresentable(raw, newNumber)
Segment ==
    /\ tpc = "start"
    /\ seg' = Segmentation(text, replacement)
    /\ tpc' = "done"
    /\ UNCHANGED <<text, matchVars, normVars, inplaceVars, batchVars,
                   serverVars, fontVars, spelledVars, layout, lpc, zip>>

NextPresent == Segment

(* Inputs: texts of up to MaxTextLines lines drawn from a title, body
   lines, bullets, a repeated line and digit lines, and texts with one long
   line *)

MaxTextLines == 3

\* a line of n characters
RECURSIVE Xs(_)
Xs(n) == IF n = 0 THEN <<>> ELSE Append(Xs(n - 1), "x")

SevenDigits == <<"1", "2", "3", "4", "5", "6", "7">>

LineChoices ==
    {<<"T", "o", "p">>, <<"t", "o", "p">>, <<"a", " ", "b">>,
     <<"-", " ", "o", "n", "e">>, <<"2", ".", " ", "t", "w", "o">>,
     <<"-", "x">>, SevenDigits, SevenDigits \o <<" ", "p">>,
     DashedNumber}

RECURSIVE LinesTexts(_)
LinesTexts(n) ==
    IF n = 1 THEN LineChoices
    ELSE LET shorter == LinesTexts(n - 1)
         IN shorter \cup {s \o <<"\n">> \o c : s \in shorter, c \in LineChoices}

\* a line of SUBTITLE_MAX characters and one that is a character shorter,
\* alone, as the second line and between two lines
LongLines == {Xs(SUBTITLE_MAX), Xs(SUBTITLE_MAX - 1)}

LongTexts ==
    LongLines
    \cup {s \o <<"\n">> \o l : s \in LineChoices, l \in LongLines}
    \cup {s \o <<"\n">> \o l \o <<"\n">> \o c :
              s \in LineChoices, l \in LongLines, c \in LineChoices}

InitPresent ==
    /\ text \in LinesTexts(MaxTextLines) \cup LongTexts \cup {<<>>}
    /\ replacement = ScenarioNumber
    /\ seg = NoSeg /\ tpc = "start" /\ layout = NoLayout /\ lpc = "off"
    /\ lastIndex = 0 /\ matches = <<>> /\ replaced = <<>> /\ mpc = "off"
    /\ normOnce = <<>> /\ normTwice = <<>> /\ npc = "off"
    /\ InplaceOff /\ BatchOff /\ ServerOff /\ FontOff
    /\ SpelledOff /\ zip = NoZip

SpecPresent == InitPresent /\ [][NextPresent]_vars

\* line occurs in t as a run of characters
OccursIn(line, t) ==
    \E j \in 0..(Len(t) - Len(line)) : SubSeq(t, j + 1, j + Len(line)) = line

\* a line mostly of digits: 7 or more digits and fewer than 4 other characters
MostlyDigits(line) == DigitCount(line) >= 7 /\ Len(line) - DigitCount(line) < 4

\* C22: a body line that is mostly digits (7 or more digits and almost
\* nothing else) is discarded: it is not pushed to bodyLines and is found in
\* no bullet and in no paragraph
C22_DigitArtifactDropped ==
    tpc = "done" =>
        \A k \in 2..Len(seg.rawLines) :
            MostlyDigits(seg.rawLines[k]) =>
                /\ \A j \in 1..Len(seg.kept) : seg.kept[j] # k
                /\ \A j \in 1..Len(seg.bullets) :
                      ~OccursIn(seg.rawLines[k], seg.bullets[j])
                /\ \A j \in 1..Len(seg.paragraphs) :
                      ~OccursIn(seg.rawLines[k], seg.paragraphs[j])

\* the outputs the line at position k of rawLines lands in: the title, the
\* subtitle, and the body (a bullet or a line of a paragraph)
Places(k) ==
    LET nonEmpty == NonEmptyPositions(seg.rawLines)
    IN (IF nonEmpty # <<>> /\ k = nonEmpty[1] THEN 1 ELSE 0)
       + (IF Len(nonEmpty) >= 2 /\ k = nonEmpty[2] /\ seg.subtitle # <<>>
          THEN 1 ELSE 0)
       + Cardinality({j \in 1..Len(seg.kept) : seg.kept[j] = k})

\* the lines over all paragraphs
RECURSIVE TotalLen(_)
TotalLen(ss) == IF ss = <<>> THEN 0 ELSE Len(Head(ss)) + TotalLen(Tail(ss))

\* C27: the segmentation is a partition: no non-empty line lands in more
\* than one of title, subtitle, bullets and paragraphs, and every line kept
\* for the body is one bullet or one line of one paragraph
C27_Partition ==
    tpc = "done" =>
        /\ \A k \in 1..Len(seg.rawLines) :
              seg.rawLines[k] # <<>> => Places(k) <= 1
        /\ Len(seg.bullets) + TotalLen(seg.paraLines)
              = Cardinality({j \in 1..Len(seg.kept) :
                                seg.rawLines[seg.kept[j]] # <<>>})

----------------------------------------------------------------------------
(* presentablePdf(pdfBytes, newNumber) (unnamed/part_003): the layout of the
   title, the subtitle, the bullets and the paragraphs *)

BODY_SIZE == 11
BODY_LINE_H == 14

\* the pagination loop of paginateText for maxLines >= 1
RECURSIVE PageChunks(_, _)
PageChunks(ls, maxLines) ==
    IF ls = <<>> THEN <<>>
    ELSE <<Join(SubSeq(ls, 1, Min({maxLines, Len(ls)})), "\n")>>
           \o PageChunks(SubSeq(ls, Min({maxLines, Len(ls)}) + 1, Len(ls)),
                         maxLines)

\* paginateText(out, font, text, pageW, pageH, {margin, size, lineH}).pages
paginateText(t, pageW, pageH) ==
    PageChunks(WrapLines(t, pageW), (pageH - MARGIN * 2) \div BODY_LINE_H)

\* the page blocks of the bullets, then those of the paragraphs, in the
\* order the two loops draw them
BlocksOf(kind, texts, pageW, pageH) ==
    Flatten([j \in 1..Len(texts) |->
        LET pages == paginateText(texts[j], pageW, pageH)
        IN [n \in 1..Len(pages) |-> [kind |-> kind, page |-> pages[n]]]])

\* addPage, the title, the subtitle, and the blocks still to draw
LayoutStart ==
    /\ lpc = "start" /\ tpc = "done"
    /\ layout' =
          [layout EXCEPT
              !.pages = 1,
              !.cursorY = layout.pageH - 72 - 30
                            - (IF seg.subtitle # <<>> THEN 26 ELSE 0),
              !.queue = BlocksOf("bullet", seg.bullets, layout.pageW,
                                 layout.pageH)
                          \o BlocksOf("paragraph", seg.paragraphs,
                                      layout.pageW, layout.pageH)]
    /\ lpc' = "blocks"
    /\ UNCHANGED <<text, matchVars, normVars, inplaceVars, batchVars,
                   serverVars, fontVars, spelledVars, seg, tpc, zip>>

\* one page block: ensure(block.size + block.lineH * lines), drawText, and
\* the cursor moved down; after the last bullet block cursorY -= 4
DrawBlock ==
    /\ lpc = "blocks" /\ layout.queue # <<>>
    /\ LET b == Head(layout.queue)
           k == Len(SplitOn(b.page, "\n"))
           need == BODY_SIZE + BODY_LINE_H * k
           fresh == layout.cursorY - need < 36
           y == IF fresh THEN layout.pageH - 72 ELSE layout.cursorY
           lastBullet == /\ b.kind = "bullet"
                         /\ \/ Len(layout.queue) = 1
                            \/ layout.queue[2].kind # "bullet"
       IN layout' =
             [layout EXCEPT
                 !.pages = IF fresh THEN @ + 1 ELSE @,
                 !.cursorY = y - k * BODY_LINE_H
                               - (IF b.kind = "bullet" THEN 4 ELSE 10)
                               - (IF lastBullet THEN 4 ELSE 0),
                 !.queue = Tail(@),
                 !.drawn = Append(@, [kind |-> b.kind, y |-> y, lines |-> k])]
    /\ UNCHANGED <<text, matchVars, normVars, inplaceVars, batchVars,
                   serverVars, fontVars, spelledVars, seg, tpc, lpc, zip>>

\* return await out.save()
LayoutSave ==
    /\ lpc = "blocks" /\ layout.queue = <<>>
    /\ lpc' = "done"
    /\ UNCHANGED <<text, matchVars, normVars, inplaceVars, batchVars,
                   serverVars, fontVars, spelledVars, seg, tpc, layout, zip>>

NextLayout == Segment \/ LayoutStart \/ DrawBlock \/ LayoutSave

(* Inputs: a title and up to MaxBodyLines body lines on a page 78 wide, on
   which every word is a line of its own; the heights give maxLines >= 1 *)

MaxBodyLines == 2

BodyChoices ==
    {<<"w", " ", "w", " ", "w">>, <<"v", " ", "v", " ", "v", " ", "v", " ", "v">>,
     <<"-", " ", "u">>, <<"-", " ", "u", " ", "u", " ", "u", " ", "u">>,
     <<"x">>}

RECURSIVE BodyTexts(_)
BodyTexts(n) ==
    IF n = 0 THEN {<<"T">>}
    ELSE LET shorter == BodyTexts(n - 1)
         IN shorter \cup {s \o <<"\n">> \o c : s \in shorter, c \in BodyChoices}

LayoutHeights == {150, 200, 250}

InitLayout ==
    /\ text \in BodyTexts(MaxBodyLines)
    /\ \E h \in LayoutHeights :
          layout = [pageW |-> 78, pageH |-> h, pages |-> 0, cursorY |-> 0,
                    queue |-> <<>>, drawn |-> <<>>]
    /\ replacement = ScenarioNumber
    /\ seg = NoSeg /\ tpc = "start" /\ lpc = "start"
    /\ lastIndex = 0 /\ matches = <<>> /\ replaced = <<>> /\ mpc = "off"
    /\ normOnce = <<>> /\ normTwice = <<>> /\ npc = "off"
    /\ InplaceOff /\ BatchOff /\ ServerOff /\ FontOff
    /\ SpelledOff /\ zip = NoZip

SpecLayout == InitLayout /\ [][NextLayout]_vars

\* C28: every body block is drawn with cursorY - (bodySize + lineH * k) >= 36
\* after the page-break check, k being the lines of the block
C28_BottomMargin ==
    lpc # "off" =>
        \A n \in 1..Len(layout.drawn) :
            layout.drawn[n].y - (11 + 14 * layout.drawn[n].lines) >= 36

----------------------------------------------------------------------------
(* processInplaceClient(pdfArrayBuffer, newNumber) *)

\* the imports, PDFDocument.load, the font fetch and embedFont, getDocument
InplaceLoad ==
    /\ ipc = "load"
    /\ ipc' = "page"
    /\ pageNo' = 1
    /\ draws' = [k \in 1..Len(doc.pages) |-> <<>>]
    /\ matches' = <<>>
    /\ lineLog' = NoLine
    /\ \E fr \in FontResponses :
          /\ IsFont(fr.body)
          /\ fontRes' = fr
    /\ fontFetches' = fontFetches + 1
    /\ UNCHANGED <<text, restVars, serverVars, replacement, lastIndex, replaced, mpc,
                   normVars, batchVars, doc, lines, lineNo, lastBox>>

\* one of them rejects: before the font is asked for, the font fetch
\* itself, or embedFont or getDocument after the font response has come
InplaceLoadThrows ==
    /\ ipc = "load"
    /\ ipc' = "threw"
    /\ \E fr \in FontResponses \cup {NoFont}, called \in BOOLEAN :
          /\ fr # NoFont => called
          /\ fontRes' = fr
          /\ fontFetches' = IF called THEN fontFetches + 1 ELSE fontFetches
    /\ UNCHANGED <<text, restVars, serverVars, matchVars, normVars, batchVars, doc,
                   pageNo, lines, lineNo, draws, lastBox, lineLog>>

\* getPage, getViewport, getTextContent, then the lines of the page
AssemblePage ==
    /\ ipc = "page"
    /\ pageNo <= Len(doc.pages)
    /\ lines' = AssembleLines(doc.pages[pageNo].items)
    /\ lineNo' = 1
    /\ ipc' = "scan"
    /\ UNCHANGED <<text, restVars, serverVars, fontVars, matchVars, normVars, batchVars, doc, pageNo, draws, lastBox, lineLog>>

\* getPage or getTextContent rejects
PageThrows ==
    /\ ipc = "page"
    /\ pageNo <= Len(doc.pages)
    /\ ipc' = "threw"
    /\ UNCHANGED <<text, restVars, serverVars, fontVars, matchVars, normVars, batchVars, doc, pageNo, lines, lineNo,
                   draws, lastBox, lineLog>>

\* const raw = L.text || ""; if (!raw) continue;
SkipEmptyLine ==
    /\ ipc = "scan"
    /\ lineNo <= Len(lines)
    /\ lines[lineNo].text = <<>>
    /\ lineNo' = lineNo + 1
    /\ UNCHANGED <<text, restVars, serverVars, fontVars, matchVars, normVars, batchVars, doc, ipc, pageNo, lines, draws,
                   lastBox, lineLog>>

\* the box of the match m of line L on the current page
BoxOf(L, m) ==
    LET used == UsedItems(L, m.index, m.end)
        pg == doc.pages[pageNo]
        src == SourceBox(used)
    IN [used |-> used, src |-> src,
        dst |-> DestBox(src, pg.vw, pg.vh, pg.pageW, pg.pageH),
        page |-> pageNo,
        vw |-> pg.vw, vh |-> pg.vh, pageW |-> pg.pageW, pageH |-> pg.pageH]

\* one test of  while ((m = PHONE_RE.exec(raw)) !== null)  and its body
ExecMatch ==
    /\ ipc = "scan"
    /\ lineNo <= Len(lines)
    /\ lines[lineNo].text # <<>>
    /\ LET L == lines[lineNo]
           m == RegExpExec(L.text, lastIndex)
       IN /\ lastIndex' = LastIndexAfter(m)
          /\ IF m = NoMatch
             THEN /\ lineNo' = lineNo + 1
                  /\ matches' = <<>>
                  /\ lineLog' = [text |-> L.text, found |-> matches]
                  /\ UNCHANGED <<draws, lastBox>>
             ELSE /\ matches' = Append(matches, m)
                  /\ UNCHANGED <<lineNo, lineLog>>
                  /\ IF UsedItems(L, m.index, m.end) = <<>>
                     THEN UNCHANGED <<draws, lastBox>>
                     ELSE /\ lastBox' = BoxOf(L, m)
                          /\ draws' = [draws EXCEPT ![pageNo] =
                                @ \o <<RectangleOp(BoxOf(L, m).dst),
                                       TextOp(BoxOf(L, m).dst, replacement)>>]
    /\ UNCHANGED <<text, restVars, serverVars, fontVars, replacement, replaced, mpc, normVars, batchVars, doc, ipc, pageNo,
                   lines>>

\* the same test, with drawRectangle or drawText throwing
DrawThrows ==
    /\ ipc = "scan"
    /\ lineNo <= Len(lines)
    /\ lines[lineNo].text # <<>>
    /\ LET L == lines[lineNo]
           m == RegExpExec(L.text, lastIndex)
       IN /\ m # NoMatch
          /\ UsedItems(L, m.index, m.end) # <<>>
          /\ lastIndex' = LastIndexAfter(m)
          /\ matches' = Append(matches, m)
          /\ lastBox' = BoxOf(L, m)
          /\ \E rectangleDrawn \in BOOLEAN :
                draws' = IF rectangleDrawn
                         THEN [draws EXCEPT ![pageNo] =
                                  Append(@, RectangleOp(BoxOf(L, m).dst))]
                         ELSE draws
    /\ ipc' = "threw"
    /\ UNCHANGED <<text, restVars, serverVars, fontVars, replacement, replaced, mpc, normVars, batchVars, doc, pageNo,
                   lines, lineNo, lineLog>>

\* the line loop is over: next page
PageDone ==
    /\ ipc = "scan"
    /\ lineNo > Len(lines)
    /\ pageNo' = pageNo + 1
    /\ ipc' = "page"
    /\ UNCHANGED <<text, restVars, serverVars, fontVars, matchVars, normVars, batchVars, doc, lines, lineNo, draws,
                   lastBox, lineLog>>

\* const out = await pdfDoc.save(); return bytesToDataUrl(...)
InplaceSave ==
    /\ ipc = "page"
    /\ pageNo > Len(doc.pages)
    /\ ipc' = "returned"
    /\ UNCHANGED <<text, restVars, serverVars, fontVars, matchVars, normVars, batchVars, doc, pageNo, lines, lineNo,
                   draws, lastBox, lineLog>>

SaveThrows ==
    /\ ipc = "page"
    /\ pageNo > Len(doc.pages)
    /\ ipc' = "threw"
    /\ UNCHANGED <<text, restVars, serverVars, fontVars, matchVars, normVars, batchVars, doc, pageNo, lines, lineNo,
                   draws, lastBox, lineLog>>

NextInplace ==
    \/ InplaceLoad \/ InplaceLoadThrows \/ AssemblePage \/ PageThrows
    \/ SkipEmptyLine \/ ExecMatch \/ DrawThrows \/ PageDone
    \/ InplaceSave \/ SaveThrows

(* One call on a one-page document whose fragments come from small sets *)

MaxItems == 2

NumberHead == <<"5", "5", "5", "-", "1", "2", "3", "4">>
NumberTail == <<"5", "6", "7">>
ItemStrs == {NumberHead, NumberTail, <<>>}
ItemXs == {0, 42, 45}
\* y, height and the c, d of the transform
ItemYs == {<<100, 10, 0, 10>>, <<102, 0, 3, 4>>, <<104, 12, 0, 12>>}
\* the width of a fragment, 5 units a character
ItemChoices ==
    {[str |-> str, transform |-> <<1, 0, yh[3], yh[4], x, yh[1]>>,
      width |-> 5 * Len(str), height |-> yh[2]] :
        str \in ItemStrs, x \in ItemXs, yh \in ItemYs}

\* viewport width and height, page width and height
PageDims == {<<200, 300, 200, 300>>, <<200, 300, 100, 450>>}

InitInplace ==
    /\ \E its \in StringsUpTo(ItemChoices, MaxItems), dims \in PageDims :
          doc = [pages |-> <<[items |-> its, vw |-> dims[1], vh |-> dims[2],
                              pageW |-> dims[3], pageH |-> dims[4]]>>]
    /\ ipc = "load"
    /\ pageNo = 0 /\ lines = <<>> /\ lineNo = 0 /\ draws = <<>>
    /\ lastBox = NoBox /\ lineLog = NoLine
    /\ text = <<>> /\ replacement = ScenarioNumber /\ lastIndex = 0
    /\ matches = <<>> /\ replaced = <<>> /\ mpc = "off"
    /\ normOnce = <<>> /\ normTwice = <<>> /\ npc = "off"
    /\ BatchOff /\ ServerOff /\ FontOff /\ RestOff

SpecInplace == InitInplace /\ [][NextInplace]_vars

\* the spans of line L partition its text, in order
SpanPartition(L) ==
    /\ L.spans # <<>>
    /\ L.spans[1].start = 0
    /\ L.spans[Len(L.spans)].end = Len(L.text)
    /\ \A k \in 1..Len(L.spans) :
          /\ L.spans[k].start <= L.spans[k].end
          /\ k > 1 => L.spans[k].start = L.spans[k - 1].end
    /\ Flatten([k \in 1..Len(L.spans) |->
                   Substring(L.text, L.spans[k].start, L.spans[k].end)]) = L.text

\* C1: the spans of every assembled line are in order, start at 0, each
\* starts where the one before ends, the last ends at text.length, and the
\* substrings they denote, concatenated, give the line text.
C1_SpanPartition == \A k \in 1..Len(lines) : SpanPartition(lines[k])

C1_Witness ==
    /\ ipc = "scan"
    /\ \E k \in 1..Len(lines) :
          /\ Len(lines[k].spans) = 3
          /\ lines[k].spans[2].itemIndex = -1
          /\ lines[k].spans[3].start = lines[k].spans[3].end
          /\ lines[k].text # <<>>

\* C5: the box of every fragment that contributes to a match lies inside
\* the source-space box computed for the match.
C5_Containment ==
    lastBox # NoBox =>
        \A k \in 1..Len(lastBox.used) :
            LET u == lastBox.used[k]
            IN /\ RLeq(lastBox.src.minX, FromInt(u.x))
               /\ RLeq(FromInt(u.x + u.width), lastBox.src.maxX)
               /\ RLeq(FromInt(u.y), lastBox.src.topY)
               /\ RLeq(lastBox.src.bottomY, FromInt(u.y - u.height))

C5_Witness ==
    /\ lastBox # NoBox
    /\ Len(lastBox.used) = 2
    /\ lastBox.used[1].y # lastBox.used[2].y
    /\ lastBox.used[1].height # lastBox.used[2].height
    /\ lastBox.src.bottomY = Rat(177, 2)

\* C6: with the viewport as wide and as high as the page, the destination
\* box is the source box flipped: x = minX, width = maxX - minX,
\* height = topY - bottomY and y = pageHeight - topY - height.
C6_ScaleInvariance ==
    (lastBox # NoBox /\ lastBox.vw = lastBox.pageW /\ lastBox.vh = lastBox.pageH) =>
        /\ lastBox.dst.x = lastBox.src.minX
        /\ lastBox.dst.width = RSub(lastBox.src.maxX, lastBox.src.minX)
        /\ lastBox.dst.height = RSub(lastBox.src.topY, lastBox.src.bottomY)
        /\ lastBox.dst.y =
              RSub(RSub(FromInt(lastBox.pageH), lastBox.src.topY), lastBox.dst.height)
        /\ ipc # "threw" =>
              LET ops == draws[lastBox.page]
              IN ops[Len(ops) - 1] = RectangleOp(lastBox.dst)

C6_Witness ==
    /\ ipc = "returned"
    /\ lastBox # NoBox
    /\ lastBox.vw = lastBox.pageW /\ lastBox.vh = lastBox.pageH
    /\ Len(draws[1]) = 2
    /\ draws[1][1].x = Rat(-3, 2)

\* the matches a scan from offset 0 finds on the first n lines
RECURSIVE MatchCount(_, _)
MatchCount(ls, n) ==
    IF n = 0 THEN 0
    ELSE MatchCount(ls, n - 1) + Len(MatchesFrom(ls[n].text, 0))

\* C19: on the assembled line being scanned every match the pattern can
\* return, from whatever offset the search starts, overlaps the span of at
\* least one fragment; so no match is skipped, and the page carries one
\* rectangle and one text for each match found so far.
C19_MatchHasFragments ==
    ipc = "scan" =>
        /\ lineNo <= Len(lines) =>
              \A from \in 0..Len(lines[lineNo].text) :
                 LET m == RegExpExec(lines[lineNo].text, from)
                 IN m # NoMatch =>
                       UsedItems(lines[lineNo], m.index, m.end) # <<>>
        /\ Len(draws[pageNo]) =
              2 * (MatchCount(lines, lineNo - 1) + Len(matches))

\* a match that runs over an inserted space
C19_Witness ==
    /\ ipc = "scan"
    /\ lineNo = 1
    /\ Len(matches) = 1
    /\ Len(lines[1].items) = 2
    /\ \E j \in 1..Len(lines[1].spans) :
          /\ lines[1].spans[j].itemIndex = -1
          /\ lines[1].spans[j].start > matches[1].index
          /\ lines[1].spans[j].end < matches[1].end
    /\ Len(lastBox.used) = 2
    /\ Len(draws[1]) = 2

----------------------------------------------------------------------------
(* One call on a one-page document of up to MaxFrags fragments that differ
   in baseline, in position and in input order *)

MaxFrags == 3

ThreeDigits == <<"5", "5", "5">>
NumberRest == <<"-", "1", "2", "3", "-", "4", "5", "6", "7">>
SpacedNumber ==
    <<"5", "5", "5", " ", "-", "1", "2", "3", "-", "4", "5", "6", "7">>

FragYs == {100, 102, 103}
FragXs == {22, 25}

FragChoices ==
    {[str |-> ThreeDigits, transform |-> <<1, 0, 0, 10, 0, y>>,
      width |-> 20, height |-> 10] : y \in FragYs}
    \cup {[str |-> NumberRest, transform |-> <<1, 0, 0, 10, x, y>>,
           width |-> 45, height |-> 10] : x \in FragXs, y \in FragYs}
    \cup {[str |-> <<>>, transform |-> <<1, 0, 0, 10, 0, 110>>,
           width |-> 0, height |-> 10]}

InitLines ==
    /\ \E its \in StringsUpTo(FragChoices, MaxFrags) :
          doc = [pages |-> <<[items |-> its, vw |-> 200, vh |-> 300,
                              pageW |-> 200, pageH |-> 300]>>]
    /\ ipc = "load"
    /\ pageNo = 0 /\ lines = <<>> /\ lineNo = 0 /\ draws = <<>>
    /\ lastBox = NoBox /\ lineLog = NoLine
    /\ text = <<>> /\ replacement = ScenarioNumber /\ lastIndex = 0
    /\ matches = <<>> /\ replaced = <<>> /\ mpc = "off"
    /\ normOnce = <<>> /\ normTwice = <<>> /\ npc = "off"
    /\ BatchOff /\ ServerOff /\ FontOff /\ RestOff

SpecLines == InitLines /\ [][NextInplace]_vars

\* the fragments of the page being scanned, as the line loop sees them
PageItems == doc.pages[pageNo].items

\* C11: after line assembly the fragments of each line are in non-decreasing
\* x order, the lines are in non-increasing yRef order, and every span's
\* fragment index is -1 or an index into the line's sorted fragments.
C11_LineOrdering ==
    ipc = "scan" =>
        /\ \A k \in 1..(Len(lines) - 1) : lines[k].yRef >= lines[k + 1].yRef
        /\ \A k \in 1..Len(lines) :
              /\ \A j \in 1..(Len(lines[k].items) - 1) :
                    lines[k].items[j].x <= lines[k].items[j + 1].x
              /\ \A j \in 1..Len(lines[k].spans) :
                    \/ lines[k].spans[j].itemIndex = -1
                    \/ /\ lines[k].spans[j].itemIndex >= 0
                       /\ lines[k].spans[j].itemIndex < Len(lines[k].items)

\* the lower line was opened first, and a line got its right fragment first
C11_Witness ==
    /\ ipc = "scan"
    /\ Len(PageItems) = 3
    /\ PageItems[1].transform[6] = 100
    /\ PageItems[1].transform[5] = 25
    /\ PageItems[2].transform[6] = 103
    /\ PageItems[3].transform[6] = 100
    /\ PageItems[3].transform[5] = 0
    /\ Len(lines) = 2
    /\ lines[1].yRef = 103
    /\ lines[2].text = SpacedNumber

\* the index in L.spans of the span of fragment idx (0-based)
SpanOf(L, idx) == CHOOSE j \in 1..Len(L.spans) : L.spans[j].itemIndex = idx

\* C12: between two consecutive fragments of a sorted line one space with a
\* fragment-less span of length 1 is inserted when
\* next.x - (prev.x + prev.width) > WORD_GAP_TOL, and nothing otherwise;
\* "555" at x 0, width 20, and "-123-4567" at x 25 give "555 -123-4567"
\* with the fragment-less span [3,4).
C12_InterFragmentSpace ==
    ipc = "scan" =>
        \A k \in 1..Len(lines) :
            LET L == lines[k]
                gaps == {j \in 1..(Len(L.items) - 1) :
                            L.items[j + 1].x - (L.items[j].x + L.items[j].width) > 2}
            IN /\ Len(L.spans) = Len(L.items) + Cardinality(gaps)
               /\ Len(L.text) =
                     Len(Flatten([j \in 1..Len(L.items) |-> L.items[j].str]))
                        + Cardinality(gaps)
               /\ \A j \in 1..(Len(L.items) - 1) :
                     LET a == SpanOf(L, j - 1)
                         b == SpanOf(L, j)
                     IN IF j \in gaps
                        THEN /\ b = a + 2
                             /\ L.spans[a + 1] =
                                   [start |-> L.spans[a].end,
                                    end |-> L.spans[a].end + 1, itemIndex |-> -1]
                             /\ L.text[L.spans[a].end + 1] = " "
                             /\ L.spans[b].start = L.spans[a].end + 1
                        ELSE /\ b = a + 1
                             /\ L.spans[b].start = L.spans[a].end
               /\ (Len(L.items) = 2 /\ L.items[1].str = ThreeDigits
                      /\ L.items[1].x = 0 /\ L.items[1].width = 20
                      /\ L.items[2].str = NumberRest /\ L.items[2].x = 25)
                    => /\ L.text = SpacedNumber
                       /\ L.spans[2] = [start |-> 3, end |-> 4, itemIndex |-> -1]

\* the scenario, given right fragment first
C12_Witness ==
    /\ ipc = "scan"
    /\ Len(PageItems) = 2
    /\ PageItems[1].str = NumberRest
    /\ Len(lines) = 1
    /\ lines[1].text = SpacedNumber
    /\ lines[1].spans[2] = [start |-> 3, end |-> 4, itemIndex |-> -1]
    /\ lines[1].spans[3] = [start |-> 4, end |-> 13, itemIndex |-> 1]

\* the y of the fragments that open a line, in the order the lines are
\* opened, among the first n fragments
RECURSIVE AnchorYs(_, _)
AnchorYs(items, n) ==
    IF n = 0 THEN <<>>
    ELSE LET before == AnchorYs(items, n - 1)
             y == items[n].transform[6]
         IN IF \E j \in 1..Len(before) : Abs(before[j] - y) <= 2
            THEN before
            ELSE Append(before, y)

\* the anchor fragment n joins: the earliest opened one within tolerance
AnchorOf(items, n) ==
    LET opened == AnchorYs(items, n)
        y == items[n].transform[6]
    IN opened[Min({j \in 1..Len(opened) : Abs(opened[j] - y) <= 2})]

\* C18: in input order each fragment joins the earliest-created line whose
\* yRef is within LINE_Y_TOL of its y, even when a later-created line is
\* closer; a line is created, anchored at the fragment's y, only when no
\* line is within tolerance; the yRef of a line never changes.
C18_FirstFit ==
    ipc = "scan" =>
        LET opened == AnchorYs(PageItems, Len(PageItems))
        IN /\ Len(lines) = Len(opened)
           /\ {lines[k].yRef : k \in 1..Len(lines)} = SeqRange(opened)
           /\ \A k \in 1..Len(lines) :
                 LET members == {n \in 1..Len(PageItems) :
                                    AnchorOf(PageItems, n) = lines[k].yRef}
                 IN /\ Len(lines[k].items) = Cardinality(members)
                    /\ \A j \in 1..Len(lines[k].items) :
                          \E n \in members : ToItem(PageItems[n]) = lines[k].items[j]
                    /\ \A n \in members :
                          \E j \in 1..Len(lines[k].items) :
                             ToItem(PageItems[n]) = lines[k].items[j]

\* lines opened at 100 and 103, then a fragment at 102: it joins the line
\* at 100 although the line at 103 is closer
C18_Witness ==
    /\ ipc = "scan"
    /\ Len(PageItems) = 3
    /\ PageItems[1].transform[6] = 100
    /\ PageItems[2].transform[6] = 103
    /\ PageItems[3].transform[6] = 102
    /\ Len(lines) = 2
    /\ lines[2].yRef = 100
    /\ Len(lines[2].items) = 2
    /\ \E j \in 1..2 : lines[2].items[j].y = 102

\* the fragments of all lines, line after line
AllLineItems == Flatten([k \in 1..Len(lines) |-> lines[k].items])

\* how many times v occurs in q
Occurrences(q, v) == Cardinality({j \in 1..Len(q) : q[j] = v})

\* C26: after grouping, every fragment of the page is in exactly one line,
\* the y of every fragment is within LINE_Y_TOL of the yRef of its line, and
\* the yRefs of two distinct lines differ by more than LINE_Y_TOL
C26_Clustering ==
    ipc = "scan" =>
        /\ Len(AllLineItems) = Len(PageItems)
        /\ \A n \in 1..Len(PageItems) :
              Occurrences(AllLineItems, ToItem(PageItems[n]))
                = Occurrences([m \in 1..Len(PageItems) |-> ToItem(PageItems[m])],
                              ToItem(PageItems[n]))
        /\ \A k \in 1..Len(lines) :
              \A j \in 1..Len(lines[k].items) :
                  Abs(lines[k].items[j].y - lines[k].yRef) <= 2
        /\ \A k1, k2 \in 1..Len(lines) :
              k1 # k2 => Abs(lines[k1].yRef - lines[k2].yRef) > 2

\* fragments at 103, 100 and 102: two lines, the third fragment in the first
C26_Witness ==
    /\ ipc = "scan"
    /\ Len(PageItems) = 3
    /\ PageItems[1].transform[6] = 103
    /\ PageItems[2].transform[6] = 100
    /\ PageItems[3].transform[6] = 102
    /\ Len(lines) = 2
    /\ lines[1].yRef = 103 /\ Len(lines[1].items) = 2
    /\ lines[2].yRef = 100 /\ Len(lines[2].items) = 1

----------------------------------------------------------------------------
(* handleProcess (pages/index.js) over documents of a small catalogue *)

MaxBatch == 2

Item(str, x, y, width, height) ==
    [str |-> str, transform |-> <<1, 0, 0, height, x, y>>,
     width |-> width, height |-> height]

OtherNumber == <<"5", "5", "5", "-", "9", "8", "7", "-", "6", "5", "4", "3">>
EightDigits == <<"1", "2", "3", "4", "5", "6", "7", "8">>

\* letter-size page, viewport of the same size
Letter(items) ==
    [items |-> items, vw |-> 612, vh |-> 792, pageW |-> 612, pageH |-> 792]

UrlTwo == <<"https:", "", "h", "a", "doc.pdf">>
UrlCall == <<"https:", "", "h", "b", "doc.pdf">>
UrlPlain == <<"https:", "", "h", "plain", "">>
URLS == {UrlTwo, UrlCall, UrlPlain}

\* what the proxy returns for each URL when the fetch succeeds
Remote(url) ==
    IF url = UrlTwo
    THEN \* one line, "555-123-4567 or 555-987-6543"
         [pages |-> <<Letter(<<Item(DashedNumber, 0, 700, 60, 10),
                               Item(<<"o", "r">>, 65, 700, 10, 10),
                               Item(OtherNumber, 80, 700, 60, 10)>>)>>]
    ELSE IF url = UrlCall
    THEN \* page 1: "call 555-123-4567"; page 2: an empty fragment and "now"
         [pages |-> <<Letter(<<Item(<<"c", "a", "l", "l">>, 0, 700, 20, 10),
                               Item(DashedNumber, 25, 700, 60, 10)>>),
                      Letter(<<Item(<<>>, 0, 700, 0, 10),
                               Item(<<"n", "o", "w">>, 0, 650, 15, 10)>>)>>]
    ELSE \* "12345678" and "hello": nothing to replace
         [pages |-> <<Letter(<<Item(EightDigits, 0, 700, 40, 10),
                               Item(<<"h", "e", "l", "l", "o">>, 0, 650, 25, 10)>>)>>]

\* the message of an Error thrown by a library or by fetch
ThrownMessages == {"", "Invalid PDF structure"}

\* what /api/process and /api/aiProcess answer
ServerAnswers ==
    { [error |-> "Failed to fetch PDF (404)"],
      [fileName |-> "doc.pdf", preview |-> "text",
       downloadUrl |-> "data:application/pdf;base64,"] }

Last(q) == q[Len(q)]

FallbackNames == <<"file_1.pdf", "file_2.pdf", "file_3.pdf", "file_4.pdf">>

\* url.split("/").pop() || `file_${i + 1}.pdf`
FileName(url, idx) == IF Last(url) # "" THEN Last(url) ELSE FallbackNames[idx + 1]

ErrorTextNoFallback(msg) == msg

\* e.message || String(e)
ErrorText(msg) == IF msg # "" THEN msg ELSE "Error"

\* processed.push({ fileName, sourceUrl: url, error })
ErrorRecord(url, idx, msg) ==
    [fileName |-> FileName(url, idx), sourceUrl |-> url, error |-> ErrorText(msg)]

\* data = { fileName, preview, downloadUrl }; processed.push({...data, sourceUrl})
InplaceRecord(url, idx, saved) ==
    [fileName |-> FileName(url, idx),
     preview |-> "In-place replacement (layout preserved).",
     downloadUrl |-> [saved |-> saved], sourceUrl |-> url]

\* { ...data, sourceUrl: url }
WithSourceUrl(data, url) ==
    [k \in DOMAIN data \cup {"sourceUrl"} |->
        IF k = "sourceUrl" THEN url ELSE data[k]]

InitBatch ==
    /\ urls \in StringsUpTo(URLS, MaxBatch)
    /\ layoutMode \in {"presentable", "inplace", "rebuild"}
    /\ aiMode \in BOOLEAN
    /\ replacement \in {<<" ">>, ScenarioNumber}
    /\ hpc = "idle" /\ docIdx = 0 /\ processed = <<>> /\ results = <<>>
    /\ loading = FALSE /\ error = "" /\ progressTotal = 0 /\ progressDone = 0
    /\ InplaceOff
    /\ text = <<>> /\ lastIndex = 0 /\ matches = <<>> /\ replaced = <<>>
    /\ mpc = "off"
    /\ normOnce = <<>> /\ normTwice = <<>> /\ npc = "off"
    /\ ServerOff /\ FontOff /\ RestOff

\* the click: the resets, the two input checks, the start of the loop
StartBatch ==
    /\ hpc \in {"idle", "done"}
    /\ results' = <<>>
    /\ progressDone' = 0
    /\ IF urls = <<>>
       THEN /\ error' = "Please enter at least one PDF URL."
            /\ hpc' = "done"
            /\ UNCHANGED <<progressTotal, loading, processed, docIdx>>
       ELSE IF Trim(replacement) = <<>>
       THEN /\ error' = "Please enter the replacement phone number."
            /\ hpc' = "done"
            /\ UNCHANGED <<progressTotal, loading, processed, docIdx>>
       ELSE /\ error' = ""
            /\ progressTotal' = Len(urls)
            /\ loading' = TRUE
            /\ processed' = <<>>
            /\ docIdx' = 0
            /\ hpc' = "loop"
    /\ UNCHANGED <<text, restVars, serverVars, fontVars, matchVars, normVars, inplaceVars, urls, layoutMode, aiMode>>

\* a catch block that leaves the progress counter alone
CaughtNoProgress(msg) ==
    /\ processed' = Append(processed, ErrorRecord(urls[docIdx + 1], docIdx, msg))
    /\ progressDone' = progressDone
    /\ docIdx' = docIdx + 1
    /\ hpc' = "loop"

\* the catch block, then setProgressDone and i++
Caught(msg) ==
    /\ processed' = Append(processed, ErrorRecord(urls[docIdx + 1], docIdx, msg))
    /\ progressDone' = progressDone + 1
    /\ docIdx' = docIdx + 1
    /\ hpc' = "loop"

\* in-place: the proxied fetch answers ok, processInplaceClient is called
FetchProxied ==
    /\ hpc = "loop" /\ docIdx < Len(urls) /\ layoutMode = "inplace"
    /\ doc' = Remote(urls[docIdx + 1])
    /\ ipc' = "load"
    /\ hpc' = "inplace"
    /\ draws' = <<>>
    /\ UNCHANGED <<text, restVars, serverVars, fontVars, matchVars, normVars, pageNo, lines, lineNo,
                   lastBox, lineLog, urls, layoutMode, aiMode, docIdx,
                   processed, results, loading, error, progressTotal,
                   progressDone>>

\* in-place: the fetch rejects or answers not ok
FetchProxiedFails ==
    /\ hpc = "loop" /\ docIdx < Len(urls) /\ layoutMode = "inplace"
    /\ \E msg \in ThrownMessages \cup {"Fetch failed (404)"} : Caught(msg)
    /\ UNCHANGED <<text, restVars, serverVars, fontVars, matchVars, normVars, inplaceVars, urls, layoutMode,
                   aiMode, results, loading, error, progressTotal>>

\* processInplaceClient returned the data URL
InplaceReturned ==
    /\ hpc = "inplace" /\ ipc = "returned"
    /\ processed' = Append(processed,
                           InplaceRecord(urls[docIdx + 1], docIdx, draws))
    /\ progressDone' = progressDone + 1
    /\ docIdx' = docIdx + 1
    /\ hpc' = "loop"
    /\ ipc' = "off"
    /\ fontRes' = NoFont /\ fontFetches' = 0
    /\ UNCHANGED <<text, restVars, serverVars, matchVars, normVars, doc, pageNo, lines, lineNo, draws,
                   lastBox, lineLog, urls, layoutMode, aiMode, results,
                   loading, error, progressTotal>>

\* processInplaceClient threw
InplaceThrew ==
    /\ hpc = "inplace" /\ ipc = "threw"
    /\ \E msg \in ThrownMessages : Caught(msg)
    /\ ipc' = "off"
    /\ fontRes' = NoFont /\ fontFetches' = 0
    /\ UNCHANGED <<text, restVars, serverVars, matchVars, normVars, doc, pageNo, lines, lineNo, draws,
                   lastBox, lineLog, urls, layoutMode, aiMode, results,
                   loading, error, progressTotal>>

\* the other modes: the POST to /api/process or /api/aiProcess answers JSON
FetchServer ==
    /\ hpc = "loop" /\ docIdx < Len(urls) /\ layoutMode # "inplace"
    /\ \E data \in ServerAnswers :
          processed' = Append(processed, WithSourceUrl(data, urls[docIdx + 1]))
    /\ progressDone' = progressDone + 1
    /\ docIdx' = docIdx + 1
    /\ UNCHANGED <<text, restVars, serverVars, fontVars, matchVars, normVars, inplaceVars, urls, layoutMode,
                   aiMode, hpc, results, loading, error, progressTotal>>

\* the POST rejects, or the answer is not JSON
FetchServerFails ==
    /\ hpc = "loop" /\ docIdx < Len(urls) /\ layoutMode # "inplace"
    /\ \E msg \in ThrownMessages : Caught(msg)
    /\ UNCHANGED <<text, restVars, serverVars, fontVars, matchVars, normVars, inplaceVars, urls, layoutMode,
                   aiMode, results, loading, error, progressTotal>>

\* setResults(processed); setLoading(false)
FinishBatch ==
    /\ hpc = "loop" /\ docIdx = Len(urls)
    /\ results' = processed
    /\ loading' = FALSE
    /\ hpc' = "done"
    /\ UNCHANGED <<text, restVars, serverVars, fontVars, matchVars, normVars, inplaceVars, urls, layoutMode,
                   aiMode, docIdx, processed, error, progressTotal, progressDone>>

Init == InitBatch

Next ==
    \/ StartBatch \/ FetchProxied \/ FetchProxiedFails \/ InplaceReturned
    \/ InplaceThrew \/ FetchServer \/ FetchServerFails \/ FinishBatch
    \/ NextInplace

Spec == Init /\ [][Next]_vars

\* the steps of a running batch other than the match loop: every awaited
\* call returns or throws, and the loops go on
Running ==
    \/ FetchProxiedFails \/ FetchServerFails \/ InplaceThrew \/ InplaceReturned
    \/ FinishBatch \/ FetchProxied \/ FetchServer
    \/ InplaceLoadThrows \/ PageThrows \/ SaveThrows \/ InplaceSave
    \/ PageDone \/ SkipEmptyLine \/ InplaceLoad \/ AssemblePage

\* one more test of the match loop, the draw calls returning or throwing
ScanStep == ExecMatch \/ DrawThrows

\* the match loop has a line with text before it: a ScanStep is enabled
Scanning == ipc = "scan" /\ lineNo <= Len(lines) /\ lines[lineNo].text # <<>>

\* WF_vars(ScanStep), with the condition that enables the step written out
ScanFair == []<>(~Scanning) \/ []<><<ScanStep>>_vars

SpecFair == Init /\ [][Next]_vars /\ WF_vars(Running) /\ ScanFair

----------------------------------------------------------------------------
(* downloadAllZip (pages/index.js) *)

\* a URL whose last segment carries a query string
UrlQuery == <<"https:", "", "h", "a", "doc.pdf?v=2">>

ZipURLS == {UrlTwo, UrlCall, UrlQuery, UrlPlain}

\* the characters of the file names that occur
Chars(name) ==
    CASE name = "doc.pdf" -> <<"d", "o", "c", ".", "p", "d", "f">>
      [] name = "doc.pdf?v=2" ->
            <<"d", "o", "c", ".", "p", "d", "f", "?", "v", "=", "2">>
      [] name = "file_1.pdf" ->
            <<"f", "i", "l", "e", "_", "1", ".", "p", "d", "f">>
      [] name = "file_2.pdf" ->
            <<"f", "i", "l", "e", "_", "2", ".", "p", "d", "f">>
      [] name = "file_3.pdf" ->
            <<"f", "i", "l", "e", "_", "3", ".", "p", "d", "f">>
      [] name = "file_4.pdf" ->
            <<"f", "i", "l", "e", "_", "4", ".", "p", "d", "f">>

\* [a-zA-Z0-9._-]
SafeNameChars == Letters \cup Digits \cup {".", "_", "-"}

\* .replace(/[^a-zA-Z0-9._-]/g, "_")
SafeName(name) ==
    [k \in 1..Len(name) |-> IF name[k] \in SafeNameChars THEN name[k] ELSE "_"]

\* r.fileName || `file_${idx + 1}.pdf`
ZipFileName(r, idx) ==
    IF "fileName" \in DOMAIN r /\ r.fileName # ""
    THEN r.fileName
    ELSE FallbackNames[idx + 1]

\* folder.file(name, data): adds the entry, or replaces the entry that has
\* this name already
FolderFile(files, name, data) ==
    IF \E k \in 1..Len(files) : files[k].name = name
    THEN [k \in 1..Len(files) |->
             IF files[k].name = name
             THEN [name |-> name, data |-> data]
             ELSE files[k]]
    ELSE Append(files, [name |-> name, data |-> data])

\* results.forEach((r, idx) => ...) from record idx + 1 on
RECURSIVE ZipEntries(_, _, _)
ZipEntries(rs, idx, files) ==
    IF idx >= Len(rs) THEN files
    ELSE LET r == rs[idx + 1]
         IN IF "downloadUrl" \notin DOMAIN r
            THEN ZipEntries(rs, idx + 1, files)
            ELSE ZipEntries(rs, idx + 1,
                            FolderFile(files,
                                       SafeName(Chars(ZipFileName(r, idx))),
                                       [of |-> r.sourceUrl,
                                        bytes |-> r.downloadUrl]))

\* the button is rendered when results.length > 0
DownloadAllZip ==
    /\ Len(results) > 0
    /\ zip' = ZipEntries(results, 0, <<>>)
    /\ UNCHANGED <<text, spelledVars, presentVars, serverVars, fontVars,
                   matchVars, normVars, inplaceVars, batchVars>>

InitZip ==
    /\ urls \in StringsUpTo(ZipURLS, MaxBatch)
    /\ layoutMode \in {"presentable", "inplace", "rebuild"}
    /\ aiMode \in BOOLEAN
    /\ replacement \in {<<" ">>, ScenarioNumber}
    /\ hpc = "idle" /\ docIdx = 0 /\ processed = <<>> /\ results = <<>>
    /\ loading = FALSE /\ error = "" /\ progressTotal = 0 /\ progressDone = 0
    /\ InplaceOff
    /\ text = <<>> /\ lastIndex = 0 /\ matches = <<>> /\ replaced = <<>>
    /\ mpc = "off"
    /\ normOnce = <<>> /\ normTwice = <<>> /\ npc = "off"
    /\ ServerOff /\ FontOff /\ RestOff

NextZip == Next \/ DownloadAllZip

SpecZip == InitZip /\ [][NextZip]_vars

\* the results that carry a downloadUrl
Downloadable(rs) == {k \in 1..Len(rs) : "downloadUrl" \in DOMAIN rs[k]}

\* C29: every download of the archive leaves exactly one entry for each
\* result that has a downloadUrl: the archive has as many files as there are
\* such results and holds the output of each of them, also when two source
\* URLs give the same sanitized file name.
C29_ZipComplete ==
    [][DownloadAllZip =>
          /\ Len(zip') = Cardinality(Downloadable(results))
          /\ \A k \in Downloadable(results) :
                \E n \in 1..Len(zip') :
                    zip'[n].data = [of |-> results[k].sourceUrl,
                                    bytes |-> results[k].downloadUrl]]_vars

----------------------------------------------------------------------------
(* handler(req, res) of pages/api/process.js *)

UrlLabel == <<"https:", "", "h", "label.pdf">>
UrlScan == <<"https:", "", "h", "scan.pdf">>
ServerUrls == URLS \cup {UrlLabel, UrlScan}

\* extracted.text of pdfParse for each document that can be fetched
Extracted(url) ==
    IF url = UrlTwo THEN DashedNumber \o <<" ", "o", "r", " ">> \o OtherNumber
    ELSE IF url = UrlCall
    THEN <<"c", "a", "l", "l", " ">> \o DashedNumber
           \o <<"\n", "\n", "n", "o", "w">>
    ELSE IF url = UrlPlain
    THEN EightDigits \o <<"\n", "h", "e", "l", "l", "o">>
    ELSE IF url = UrlLabel THEN <<"C", "a", "l", "l", " ">> \o Flowers
    ELSE <<>>

\* width and height of the first page: letter, but for the label, which is
\* 4 inches by 80 points
FirstPageSize(url) ==
    IF url = UrlLabel THEN [pageW |-> 288, pageH |-> 80]
    ELSE [pageW |-> 612, pageH |-> 792]

\* steps 2 and 3: normalize, vanity, spelled-out digits, replace
ReplacedText(t, newNumber) ==
    StringReplace(
        collapseSpelledDigits(convertVanityToDigits(normalizeWeird(t))),
        newNumber)

NewNumbers == {ScenarioNumber}

\* the text of step 3 for each document and number, computed once
Processed ==
    [u \in ServerUrls, n \in NewNumbers |-> ReplacedText(Extracted(u), n)]

\* the lines paginateTextToPages wraps that text into at the width of the
\* document's first page, computed once
ProcessedLines ==
    [u \in ServerUrls, n \in NewNumbers |->
        WrapLines(Processed[u, n], FirstPageSize(u).pageW)]

\* pdfUrl.split("/").pop() || "output.pdf"; the names of the catalogue hold
\* no character that .replace(/[^a-zA-Z0-9._-]/g, "_") rewrites
ServerFileName(url) == IF Last(url) # "" THEN Last(url) ELSE "output.pdf"

EmptyBlock == <<"(", "e", "m", "p", "t", "y", ")">>

\* res.status(code).json(body)
Respond(code, body) ==
    /\ responses' = Append(responses, [status |-> code, body |-> body])
    /\ spc' = "done"

\* the catch block
Respond500(msg) == Respond(500, [error |-> ErrorText(msg)])

Requests ==
    [pdfUrl : ServerUrls \cup {<<>>},
     newNumber : NewNumbers \cup {<<>>},
     mode : {"rebuild", "presentable", "overlay"}]

InitHandler ==
    /\ req \in Requests
    /\ spc = "start" /\ responses = <<>> /\ srvText = <<>>
    /\ pageSize = NoSize /\ wrapped = <<>> /\ outPages = <<>> /\ ppc = "off"
    /\ decoded = <<>> /\ vpc = "off"
    /\ text = <<>> /\ replacement = <<>> /\ lastIndex = 0 /\ matches = <<>>
    /\ replaced = <<>> /\ mpc = "off"
    /\ normOnce = <<>> /\ normTwice = <<>> /\ npc = "off"
    /\ InplaceOff /\ BatchOff /\ FontOff /\ RestOff

HasFields == req.pdfUrl # <<>> /\ req.newNumber # <<>>

\* if (!pdfUrl || !newNumber) return res.status(400).json(...)
HandlerRejects ==
    /\ spc = "start" /\ ~HasFields
    /\ Respond(400, [error |-> "Missing pdfUrl or newNumber"])
    /\ UNCHANGED <<text, restVars, matchVars, normVars, inplaceVars, batchVars, fontVars,
                   decoded, vpc, pageSize, wrapped, outPages, ppc, req,
                   srvText>>

\* steps 1 to 3: the fetch, pdfParse and the text pipeline
HandlerFetch ==
    /\ spc = "start" /\ HasFields
    /\ srvText' = Processed[req.pdfUrl, req.newNumber]
    /\ spc' = IF req.mode = "overlay" THEN "overlay" ELSE "rebuild"
    /\ UNCHANGED <<text, restVars, matchVars, normVars, inplaceVars, batchVars, fontVars,
                   decoded, vpc, pageSize, wrapped, outPages, ppc, req,
                   responses>>

\* the fetch rejects or is not ok, or pdfParse rejects
HandlerFetchFails ==
    /\ spc = "start" /\ HasFields
    /\ \E msg \in ThrownMessages \cup {"Failed to fetch PDF (404)"} :
          Respond500(msg)
    /\ UNCHANGED <<text, restVars, matchVars, normVars, inplaceVars, batchVars, fontVars,
                   decoded, vpc, pageSize, wrapped, outPages, ppc, req,
                   srvText>>

\* PDFDocument.load or PDFDocument.create rejects
HandlerLoadFails ==
    /\ spc \in {"overlay", "rebuild"}
    /\ \E msg \in ThrownMessages : Respond500(msg)
    /\ UNCHANGED <<text, restVars, matchVars, normVars, inplaceVars, batchVars, fontVars,
                   decoded, vpc, pageSize, wrapped, outPages, ppc, req,
                   srvText>>

\* embedUnicodeFont resolves; in rebuild mode the page size is read and
\* paginateTextToPages is called and wraps the text into lines
HandlerEmbedFont ==
    /\ spc \in {"overlay", "rebuild"}
    /\ \E fr \in FontResponses :
          /\ fr.ok /\ IsFont(fr.body)
          /\ fontRes' = fr
    /\ fontFetches' = fontFetches + 1
    /\ IF spc = "overlay"
       THEN /\ spc' = "overlaydraw"
            /\ UNCHANGED <<pageSize, wrapped, ppc>>
       ELSE /\ spc' = "paginate"
            /\ pageSize' = FirstPageSize(req.pdfUrl)
            /\ wrapped' = ProcessedLines[req.pdfUrl, req.newNumber]
            /\ ppc' = "paginate"
    /\ UNCHANGED <<text, restVars, matchVars, normVars, inplaceVars, batchVars,
                   decoded, vpc, outPages, req, responses, srvText>>

\* embedUnicodeFont rejects: the fetch rejects, the response is not ok, or
\* embedFont does not take the bytes
HandlerEmbedFontFails ==
    /\ spc \in {"overlay", "rebuild"}
    /\ \E fr \in FontResponses \cup {NoFont} :
          /\ ~(fr.ok /\ IsFont(fr.body))
          /\ fontRes' = fr
          /\ IF fr = NoFont THEN \E msg \in ThrownMessages : Respond500(msg)
             ELSE IF ~fr.ok THEN Respond500("Font download failed (404)")
             ELSE Respond500("Unknown font format")
    /\ fontFetches' = fontFetches + 1
    /\ UNCHANGED <<text, restVars, matchVars, normVars, inplaceVars, batchVars,
                   decoded, vpc, pageSize, wrapped, outPages, ppc, req,
                   srvText>>

\* rebuild: the pages are drawn, the document is saved, 200 is sent
HandlerRebuildSave ==
    /\ spc = "paginate" /\ ppc = "done"
    /\ Respond(200,
          [fileName |-> ServerFileName(req.pdfUrl),
           preview |-> Substring(srvText, 0, Min({500, Len(srvText)})),
           downloadUrl |->
              [pages |-> IF outPages = <<>> THEN <<EmptyBlock>> ELSE outPages]])
    /\ UNCHANGED <<text, restVars, matchVars, normVars, inplaceVars, batchVars, fontVars,
                   decoded, vpc, pageSize, wrapped, outPages, ppc, req,
                   srvText>>

\* rebuild: addPage, drawText or save throws
HandlerRebuildSaveFails ==
    /\ spc = "paginate" /\ ppc = "done"
    /\ \E msg \in ThrownMessages : Respond500(msg)
    /\ UNCHANGED <<text, restVars, matchVars, normVars, inplaceVars, batchVars, fontVars,
                   decoded, vpc, pageSize, wrapped, outPages, ppc, req,
                   srvText>>

\* overlay: the preview block is drawn on page 1, the document is saved
HandlerOverlaySave ==
    /\ spc = "overlaydraw"
    /\ Respond(200,
          [fileName |-> Last(req.pdfUrl),
           preview |-> Substring(srvText, 0, Min({500, Len(srvText)})),
           downloadUrl |->
              [overlay |-> Substring(srvText, 0, Min({1800, Len(srvText)}))]])
    /\ UNCHANGED <<text, restVars, matchVars, normVars, inplaceVars, batchVars, fontVars,
                   decoded, vpc, pageSize, wrapped, outPages, ppc, req,
                   srvText>>

\* overlay: there is no first page, or drawText or save throws
HandlerOverlaySaveFails ==
    /\ spc = "overlaydraw"
    /\ \E msg \in ThrownMessages : Respond500(msg)
    /\ UNCHANGED <<text, restVars, matchVars, normVars, inplaceVars, batchVars, fontVars,
                   decoded, vpc, pageSize, wrapped, outPages, ppc, req,
                   srvText>>

NextHandler ==
    \/ HandlerRejects \/ HandlerFetch \/ HandlerFetchFails
    \/ HandlerLoadFails \/ HandlerEmbedFont \/ HandlerEmbedFontFails
    \/ HandlerRebuildSave \/ HandlerRebuildSaveFails
    \/ HandlerOverlaySave \/ HandlerOverlaySaveFails
    \/ PushPage \/ PaginateReturn

\* one invocation; a step that can be taken is taken
SpecHandler == InitHandler /\ [][NextHandler]_vars /\ WF_vars(NextHandler)

----------------------------------------------------------------------------
(* The font fetch in the two pipelines *)

\* one document: a call of processInplaceClient, or one request to the handler
InitPipelines == InitInplace \/ InitHandler

NextPipelines == NextInplace \/ NextHandler

SpecPipelines == InitPipelines /\ [][NextPipelines]_vars

\* the handler has answered 500 with a message and has built no page
AnsweredError ==
    /\ spc = "done"
    /\ Len(responses) = 1
    /\ responses[1].status = 500
    /\ responses[1].body.error # ""
    /\ "downloadUrl" \notin DOMAIN responses[1].body
    /\ outPages = <<>>

----------------------------------------------------------------------------
(* The responses of the handler *)

\* 200 with a downloadUrl and no error, or 400 or 500 with an error message
\* and no downloadUrl
WellShaped(r) ==
    IF r.status = 200
    THEN "downloadUrl" \in DOMAIN r.body /\ "error" \notin DOMAIN r.body
    ELSE /\ r.status \in {400, 500}
         /\ "error" \in DOMAIN r.body /\ r.body.error # ""
         /\ "downloadUrl" \notin DOMAIN r.body

\* never more than one response, and each of one of the two shapes
OneShapedResponse ==
    /\ Len(responses) <= 1
    /\ \A k \in 1..Len(responses) : WellShaped(responses[k])

\* C16: every invocation of the handler sends exactly one response, which is
\* either 200 with a downloadUrl and no error field, or 400 or 500 with an
\* error message and no downloadUrl
C16_ExactlyOneResponse == []OneShapedResponse /\ <>(Len(responses) = 1)

----------------------------------------------------------------------------
(* Properties of the batch *)

\* C2: no state is retained across lines, pages or documents: every line is
\* scanned from character offset 0, and the matches found on a completed
\* line are those a scan of its text from offset 0 finds, whatever happened
\* before, including an earlier document that failed inside a match loop.
C2_NoRetainedState ==
    /\ (ipc = "scan" /\ lineNo <= Len(lines) /\ matches = <<>>)
          => lastIndex = 0
    /\ lineLog.found = MatchesFrom(lineLog.text, 0)

IsSuccess(rec) ==
    /\ "downloadUrl" \in DOMAIN rec
    /\ "error" \notin DOMAIN rec

IsFailure(rec) ==
    /\ "error" \in DOMAIN rec
    /\ rec.error # ""
    /\ "downloadUrl" \notin DOMAIN rec

\* C4: a batch that passed the input checks yields one result record per
\* input URL, in input order, each either a success carrying a downloadUrl
\* or a failure carrying a non-empty error message and no downloadUrl; while
\* the loop runs, every document before the current one has its record,
\* whether it failed or not.
C4_BatchIndependence ==
    /\ (hpc \in {"loop", "inplace"})
          => /\ Len(processed) = docIdx
             /\ progressDone = docIdx
             /\ docIdx <= Len(urls)
    /\ (hpc = "done" /\ error = "")
          => /\ Len(results) = Len(urls)
             /\ \A k \in 1..Len(results) :
                   /\ results[k].sourceUrl = urls[k]
                   /\ IsSuccess(results[k]) \/ IsFailure(results[k])

\* a failed first document followed by a successful second one
C4_Witness ==
    /\ hpc = "done" /\ error = "" /\ layoutMode = "inplace"
    /\ Len(results) = 2
    /\ IsFailure(results[1])
    /\ IsSuccess(results[2])
    /\ \E p \in 1..Len(results[2].downloadUrl.saved) :
          results[2].downloadUrl.saved[p] # <<>>

\* C30: the progress counter never exceeds the total, results are empty
\* while loading is true, and a batch that has started (loading is true)
\* eventually ends with loading false, progressDone = progressTotal = the
\* number of URLs, and one result record per URL, whatever the documents did.
C30_BatchCompletion ==
    /\ [](progressDone <= progressTotal)
    /\ [](loading => results = <<>>)
    /\ loading ~> (/\ ~loading
                   /\ progressDone = progressTotal
                   /\ progressTotal = Len(urls)
                   /\ Len(results) = Len(urls))

\* a finished batch of two documents, the first answered, the second failed
C30_Witness ==
    /\ hpc = "done" /\ ~loading
    /\ progressDone = 2 /\ progressTotal = 2
    /\ Len(results) = 2
    /\ IsSuccess(results[1])
    /\ IsFailure(results[2])

\* some substring of t is an optional '+', a digit, 7 or more characters of
\* the class and a final digit
ContainsPhone(t) ==
    \E a \in 0..Len(t) : \E b \in a..Len(t) :
        HasShape(Substring(t, a, b), Digits \cup WhiteSpace \cup Punct)

NoPhoneInDocument(d) ==
    \A p \in 1..Len(d.pages) :
        LET ls == AssembleLines(d.pages[p].items)
        IN \A n \in 1..Len(ls) : ~ContainsPhone(ls[n].text)

NothingDrawn(saved) == \A p \in 1..Len(saved) : saved[p] = <<>>

\* C7: if no assembled line of any page of a document contains a digit-led
\* run of at least 9 characters matching the phone pattern, no cover
\* rectangle and no replacement text is drawn on any page, during the
\* processing and in the saved output.
C7_NoMatchNoDraw ==
    /\ (ipc \in {"page", "scan", "returned", "threw"} /\ NoPhoneInDocument(doc))
          => NothingDrawn(draws)
    /\ \A k \in 1..Len(processed) :
          (layoutMode = "inplace" /\ IsSuccess(processed[k])
             /\ NoPhoneInDocument(Remote(urls[k])))
          => NothingDrawn(processed[k].downloadUrl.saved)

\* the plain document comes out untouched after a document that failed
\* while drawing
C7_Witness ==
    /\ hpc = "done" /\ layoutMode = "inplace"
    /\ Len(results) = 2
    /\ urls[2] = UrlPlain
    /\ IsFailure(results[1])
    /\ IsSuccess(results[2])
    /\ NothingDrawn(results[2].downloadUrl.saved)
    /\ Len(results[2].downloadUrl.saved) = 1

\* C20: away from a throwing draw call, the draw stream of every page is
\* an alternation of one white rectangle and one replacement text at
\* (x + 0.5, y + 0.5) of that rectangle, size 10, maximum width the
\* rectangle's width minus 1; the pairs of the line being scanned are those
\* of its matches, in match order; a text never comes without its
\* rectangle just before it, even when a draw call throws.
C20_CoverThenRedraw ==
    /\ \A p \in 1..Len(draws) : \A j \in 1..Len(draws[p]) :
          draws[p][j].op = "text" =>
             /\ j > 1
             /\ draws[p][j - 1].op = "rectangle"
             /\ draws[p][j - 1].color = <<1, 1, 1>>
             /\ draws[p][j] =
                   [op |-> "text", text |-> replacement,
                    x |-> RAdd(draws[p][j - 1].x, Rat(1, 2)),
                    y |-> RAdd(draws[p][j - 1].y, Rat(1, 2)),
                    size |-> 10,
                    maxWidth |-> RSub(draws[p][j - 1].width, FromInt(1))]
    /\ ipc \in {"page", "scan", "returned"} =>
          \A p \in 1..Len(draws) :
             /\ Len(draws[p]) % 2 = 0
             /\ \A j \in 1..Len(draws[p]) :
                   draws[p][j].op = IF j % 2 = 1 THEN "rectangle" ELSE "text"
    /\ (ipc = "scan" /\ lineNo <= Len(lines)) =>
          LET ops == draws[pageNo]
          IN /\ Len(ops) >= 2 * Len(matches)
             /\ \A k \in 1..Len(matches) :
                   LET box == BoxOf(lines[lineNo], matches[k]).dst
                       at == Len(ops) - 2 * (Len(matches) - k) - 1
                   IN /\ ops[at] = [op |-> "rectangle", x |-> box.x, y |-> box.y,
                                    width |-> box.width, height |-> box.height,
                                    color |-> <<1, 1, 1>>]
                      /\ ops[at + 1].op = "text"

\* two matches on one line of a saved document
C20_Witness ==
    /\ ipc = "returned"
    /\ hpc = "inplace"
    /\ Len(draws) = 1
    /\ Len(draws[1]) = 4
    /\ draws[1][1].x = Rat(-3, 2)
    /\ draws[1][3].x = Rat(157, 2)

====
